---- MODULE Spec2Model ----
(***************************************************************************)
(* A model of the simple-state finite-state-machine engine                 *)
(* (src/StateMachine.ts, lines 1-387) and of the dwell thresholds in       *)
(* duration units that its tests exercise.                                 *)
(*                                                                         *)
(* A machine is a graph of named states.  Every state owns an ordered list *)
(* of transitions, a minimum-ticks threshold, its counters and its         *)
(* subscription channels.  Callbacks are opaque to the engine: the model   *)
(* names them and records, for the last API call, the sequence of callback *)
(* invocations (with the metadata passed) in the variable log.             *)
(***************************************************************************)
EXTENDS Integers, Sequences, FiniteSets, TLC

\* ------------------------------------------------------------- universes
\* State names a host may use.
Names == {"idle", "walk", "jump"}
\* Host predicates: predicate p holds of a tick's data iff p \in data.preds.
Preds == {"p1", "p2"}
\* Subscriber callbacks a host may register.
Cbs == {"c1", "c2"}
\* User lifecycle callbacks (andThen / tick); "noop" is the default () => {}.
NOOP == "noop"
UserFn == "f"
\* A user callback that throws when it is invoked.
ThrowingFn == "thrower"
\* null (metadata.from of the first entry, an unset matcher field, no alias).
NULL == "null"
\* duration: number | null; null is modelled as -1.
NullDuration == -1
\* The delta field name timers() installs by default.
DefaultAlias == "dt"

\* ----------------------------------------------------------------- bounds
\* Largest tickCount a dwell is followed to.
MaxTicks == 3
\* Largest number of entries into one state that is followed.
MaxEntries == 2
\* Largest number of transitions declared on the whole graph.
MaxTransitions == 2
\* Largest literal threshold passed to forAtLeast.
MaxMin == 2
\* The same caps where the initial state has transitions to two states.
OrderMaxTicks == 1
OrderMaxEntries == 1
OrderMaxTransitions == 2
LifeMaxTicks == 1
LifeMaxEntries == 1
LifeMaxTransitions == 2
SubMaxTicks == 1
SubMaxEntries == 2
SubMaxTransitions == 2
OffMaxTicks == 1
OffMaxEntries == 1
MatchMaxTicks == 1
MatchMaxEntries == 2
ClockMaxTicks == 2
ClockMaxEntries == 1
RecMaxTicks == 2
RecMaxEntries == 2
ThrowMaxTicks == 1
ThrowMaxEntries == 1
FleetMaxTicks == 1
FleetMaxEntries == 1
TwinMaxTicks == 1
TwinMaxEntries == 2
PairMaxTicks == 1
PairMaxEntries == 2
WideMaxTicks == 2
WideMaxEntries == 1
MetaMaxTicks == 2
MetaMaxEntries == 1
OnceMaxTicks == 2
OnceMaxEntries == 2
FrameMaxTicks == 1
FrameMaxEntries == 2
LiveMaxTicks == 1
LiveMaxEntries == 2
EntryMaxTicks == 1
EntryMaxEntries == 2
MaxDuration == 2
MaxDelta == 1
TimerMaxTicks == 1
TimerMaxEntries == 1

VARIABLES
  initialState,             \* StateMachine(initialState)
  states,                   \* keys of the states dictionary
  stateKeys,                \* Object.keys(states): the keys in insertion order
  transitions,              \* state.transitions: name -> Seq of [predicate, state]
  getMinTicks,              \* State closure: the literal or provider given to forAtLeast
  minTicks,                 \* State closure: threshold resolved at the last entry
  tickCount,                \* State closure
  timesEnteredCount,        \* State closure
  duration,                 \* State closure: number or NullDuration
  initFn,                   \* user enter-callback wrapped by initialiser
  tickFn,                   \* user tick-callback wrapped by ticker
  stateChangeSubscriptions, \* name -> Seq of callbacks ('begin' channel)
  stateTickSubscriptions,   \* name -> Seq of callbacks ('every' channel)
  stateEndSubscriptions,    \* name -> Seq of callbacks ('end' channel)
  subscriptionsViaMatcher,  \* State closure variable: the list initialiser and ticker read
  matcherProperty,          \* the array the returned State object exposes; on() pushes to it
  matcherShared,            \* name -> whether closure variable and property are one array
  onTicks,                  \* machine-wide tick subscribers
  homeState,                \* builder cursor
  destState,                \* builder cursor
  currentStateName,
  deltaAlias,               \* NULL, or the data field read as the tick's delta
  calls,                    \* number of invocations of the threshold provider
  getMinDuration,           \* the duration threshold given to forAtLeast(n, 'duration')
  minDuration,              \* duration threshold resolved at the last entry
  previousStateName,        \* the state left by the last transition, or NULL
  dwellTime,                \* history: name -> sum of the deltas of the ticks of the
                            \* state's ongoing (or last) dwell
  parked,                   \* the program's other machine, if it has one: a
                            \* sequence of at most one machine
  active,                   \* which machine the variables describe: 1 or 2
  records,                  \* FlightRecorder: state name -> Recording
  recorderStateName,        \* FlightRecorder closure: currentStateName
  currentDuration,          \* FlightRecorder closure
  log,                      \* callback invocations of the last API call, in order
  err                       \* error thrown by the last API call, or "none"

graphVars == <<states, stateKeys, transitions, homeState, destState>>
gateVars == <<getMinTicks, minTicks, calls, getMinDuration, minDuration>>
counterVars == <<tickCount, timesEnteredCount, duration>>
fnVars == <<initFn, tickFn>>
channelVars == <<stateChangeSubscriptions, stateTickSubscriptions, stateEndSubscriptions, onTicks>>
matcherVars == <<subscriptionsViaMatcher, matcherProperty, matcherShared>>
subVars == <<channelVars, matcherVars>>
runVars == <<currentStateName, deltaAlias>>
recorderVars == <<records, recorderStateName, currentDuration>>
fleetVars == <<initialState, parked, active>>
restVars == <<previousStateName, dwellTime, recorderVars, fleetVars>>
vars == <<graphVars, gateVars, counterVars, fnVars, subVars, runVars, restVars, log, err>>

\* ---------------------------------------------------------------- values
Literal(n) == [fn |-> FALSE, val |-> n]
\* The provider of the tests: let calls = 0; () => ++calls.
Provider == [fn |-> TRUE, val |-> 0]

Metadata(f, t, tc, d) == [from |-> f, to |-> t, tickCount |-> tc, duration |-> d]
\* One callback invocation: callback(data, metadata).
Invocation(kind, cb, data, meta) == [kind |-> kind, cb |-> cb, data |-> data, meta |-> meta]

\* A fan-out that walks the channel from its newest subscriber.
FanOutReversed(kind, subs, data, meta) ==
  [i \in 1..Len(subs) |-> Invocation(kind, subs[Len(subs) + 1 - i], data, meta)]

\* forEach over a plain channel: every callback, in registration order.
FanOut(kind, subs, data, meta) ==
  [i \in 1..Len(subs) |-> Invocation(kind, subs[i], data, meta)]

\* filterByMatcher / callMatchingSubscriptions: an unset field matches anything.
MatcherAccepts(matcher, meta) ==
  /\ (matcher.from = NULL \/ matcher.from = meta.from)
  /\ (matcher.to = NULL \/ matcher.to = meta.to)

RECURSIVE FilterSeq(_, _)
\* Array.prototype.filter with the matcher test of a given metadata.
FilterSeq(subs, meta) ==
  IF subs = <<>> THEN <<>>
  ELSE LET rest == FilterSeq(Tail(subs), meta)
       IN IF MatcherAccepts(Head(subs), meta) THEN <<Head(subs)>> \o rest ELSE rest

\* A filter that unsubscribes nothing.
KeepSubscribed(subs, meta) == subs

RECURSIVE RemoveUnsubscribed(_, _)
\* subscriptionsViaMatcher.filter(sub => !shouldUnsubscribe.includes(sub)):
\* drops the matched subscriptions whose shouldUnsubscribe returns true.
RemoveUnsubscribed(subs, meta) ==
  IF subs = <<>> THEN <<>>
  ELSE LET rest == RemoveUnsubscribed(Tail(subs), meta)
       IN IF MatcherAccepts(Head(subs), meta) /\ Head(subs).unsub THEN rest
          ELSE <<Head(subs)>> \o rest

MatchedFanOut(subs, data, meta) ==
  LET m == FilterSeq(subs, meta)
  IN [i \in 1..Len(m) |-> Invocation("match", m[i].cb, data, meta)]

\* A provider whose counter is shared by the program's two machines.
toMinTicksShared(v) ==
  IF v.fn THEN calls + 1 + (IF parked = <<>> THEN 0 ELSE parked[1].calls) ELSE v.val

\* toMinTicks: a literal is returned, a provider is invoked.
toMinTicks(v) == IF v.fn THEN calls + 1 ELSE v.val
\* A provider that is not invoked again.
CallsAfterCached(v) == calls

CallsAfter(v) == IF v.fn THEN calls + 1 ELSE calls

\* ----------------------------------------------------------------- Init
\* StateMachine(initialState): one state, cursors and current state on it.
Init ==
  /\ initialState = "idle"
  /\ states = {initialState}
  /\ stateKeys = <<initialState>>
  /\ parked = <<>>
  /\ active = 1
  /\ transitions = [n \in Names |-> <<>>]
  /\ getMinTicks = [n \in Names |-> Literal(0)]
  /\ minTicks = [n \in Names |-> 0]
  /\ tickCount = [n \in Names |-> 0]
  /\ timesEnteredCount = [n \in Names |-> 0]
  /\ duration = [n \in Names |-> NullDuration]
  /\ initFn = [n \in Names |-> NOOP]
  /\ tickFn = [n \in Names |-> NOOP]
  /\ stateChangeSubscriptions = [n \in Names |-> <<>>]
  /\ stateTickSubscriptions = [n \in Names |-> <<>>]
  /\ stateEndSubscriptions = [n \in Names |-> <<>>]
  /\ subscriptionsViaMatcher = [n \in Names |-> <<>>]
  /\ matcherProperty = [n \in Names |-> <<>>]
  /\ matcherShared = [n \in Names |-> TRUE]
  /\ onTicks = <<>>
  /\ homeState = initialState
  /\ destState = initialState
  /\ currentStateName = initialState
  /\ deltaAlias = NULL
  /\ calls = 0
  /\ previousStateName = NULL
  /\ dwellTime = [n \in Names |-> 0]
  /\ getMinDuration = [n \in Names |-> 0]
  /\ minDuration = [n \in Names |-> 0]
  /\ records = [n \in {} |-> 0]
  /\ recorderStateName = ""
  /\ currentDuration = 0
  /\ log = <<>>
  /\ err = "none"

\* An API call that throws changes nothing but what the caller sees.
Throws(e) ==
  /\ err' = e
  /\ log' = <<>>
  /\ UNCHANGED restVars
  /\ UNCHANGED <<graphVars, gateVars, counterVars, fnVars, subVars, runVars>>

NumTransitions == Len(transitions["idle"]) + Len(transitions["walk"]) + Len(transitions["jump"])

\* ---------------------------------------------------------------- builder
\* A check that lets every pair through.
allowTransitionToSameState(a, b) == TRUE

\* preventTransitionToSameState(a, b) throws when a === b: TRUE when it returns.
preventTransitionToSameState(a, b) == a # b

\* A transitionTo that does not add its target to the states.
transitionToUnregistered(stateName) ==
  IF ~preventTransitionToSameState(stateName, homeState)
  THEN Throws("SameState")
  ELSE /\ destState' = stateName
       /\ err' = "none"
       /\ log' = <<>>
       /\ UNCHANGED restVars
       /\ UNCHANGED <<states, stateKeys, transitions, homeState>>
       /\ UNCHANGED <<gateVars, counterVars, fnVars, subVars, runVars>>

\* transitionTo: states[stateName] = states[stateName] || State(stateName).
transitionTo(stateName) ==
  IF ~preventTransitionToSameState(stateName, homeState)
  THEN Throws("SameState")
  ELSE /\ destState' = stateName
       /\ states' = states \cup {stateName}
       /\ stateKeys' = IF stateName \in states THEN stateKeys
                       ELSE Append(stateKeys, stateName)
       /\ err' = "none"
       /\ log' = <<>>
       /\ UNCHANGED restVars
       /\ UNCHANGED <<transitions, homeState, gateVars, counterVars, fnVars, subVars, runVars>>

when(predicate) ==
  IF ~preventTransitionToSameState(homeState, destState)
  THEN Throws("SameState")
  ELSE /\ transitions' = [transitions EXCEPT
            ![homeState] = Append(@, [predicate |-> predicate, state |-> destState])]
       /\ err' = "none"
       /\ log' = <<>>
       /\ UNCHANGED restVars
       /\ UNCHANGED <<states, stateKeys, homeState, destState>>
       /\ UNCHANGED <<gateVars, counterVars, fnVars, subVars, runVars>>

or(predicate) ==
  IF ~preventTransitionToSameState(homeState, destState)
  THEN Throws("SameState")
  ELSE /\ transitions' = [transitions EXCEPT
            ![homeState] = Append(@, [predicate |-> predicate, state |-> destState])]
       /\ err' = "none"
       /\ log' = <<>>
       /\ UNCHANGED restVars
       /\ UNCHANGED <<states, stateKeys, homeState, destState>>
       /\ UNCHANGED <<gateVars, counterVars, fnVars, subVars, runVars>>

forAtLeast(countOrFn) ==
  /\ getMinTicks' = [getMinTicks EXCEPT ![destState] = countOrFn]
  /\ err' = "none"
  /\ log' = <<>>
  /\ UNCHANGED restVars
  /\ UNCHANGED <<graphVars, minTicks, calls, getMinDuration, minDuration>>
  /\ UNCHANGED <<counterVars, fnVars, subVars, runVars>>

state(stateName) ==
  IF stateName \notin states
  THEN Throws("NotFound")
  ELSE /\ homeState' = stateName
       /\ destState' = stateName
       /\ err' = "none"
       /\ log' = <<>>
       /\ UNCHANGED restVars
       /\ UNCHANGED <<states, stateKeys, transitions>>
       /\ UNCHANGED <<gateVars, counterVars, fnVars, subVars, runVars>>

\* forAtLeast(n, 'duration'): a dwell threshold in duration units on the
\* builder's dest state; it enables timer mode when timers() was not called.
forAtLeastDuration(n) ==
  /\ getMinDuration' = [getMinDuration EXCEPT ![destState] = n]
  /\ deltaAlias' = IF deltaAlias = NULL THEN DefaultAlias ELSE deltaAlias
  /\ err' = "none"
  /\ log' = <<>>
  /\ UNCHANGED restVars
  /\ UNCHANGED <<graphVars, getMinTicks, minTicks, calls, minDuration>>
  /\ UNCHANGED <<counterVars, fnVars, subVars, currentStateName>>

andThen(fn) ==
  /\ initFn' = [initFn EXCEPT ![destState] = fn]
  /\ err' = "none"
  /\ log' = <<>>
  /\ UNCHANGED restVars
  /\ UNCHANGED <<graphVars, gateVars, counterVars, tickFn, subVars, runVars>>

tick(fn) ==
  /\ tickFn' = [tickFn EXCEPT ![destState] = fn]
  /\ err' = "none"
  /\ log' = <<>>
  /\ UNCHANGED restVars
  /\ UNCHANGED <<graphVars, gateVars, counterVars, initFn, subVars, runVars>>

timers(alias) ==
  /\ deltaAlias' = alias
  /\ err' = "none"
  /\ log' = <<>>
  /\ UNCHANGED restVars
  /\ UNCHANGED <<graphVars, gateVars, counterVars, fnVars, subVars, currentStateName>>

\* subs.indexOf(fn): the first index of fn in subs, 0 when it has none.
IndexOf(subs, fn) ==
  IF \E i \in 1..Len(subs) : subs[i] = fn
  THEN CHOOSE i \in 1..Len(subs) : subs[i] = fn /\ \A j \in 1..(i - 1) : subs[j] # fn
  ELSE 0

\* subs.splice(index, 1) at the first index of fn.
Splice(subs, fn) ==
  LET index == IndexOf(subs, fn)
  IN IF index = 0 THEN subs
     ELSE [i \in 1..(Len(subs) - 1) |-> IF i < index THEN subs[i] ELSE subs[i + 1]]

\* A subscriber that unsubscribes itself when it is invoked:
\* function leaver(data, meta) { machine.off(meta.to, leaver) }.
Leaver == "leaver"

\* The three channel arrays of every state.
Chans ==
  [begin |-> stateChangeSubscriptions,
   every |-> stateTickSubscriptions,
   end |-> stateEndSubscriptions]

\* The channels after off(stateName, fn): allSubs.find(sub =>
\* sub.includes(fn)), then splice at the first index of fn.
OffIn(ch, stateName, fn) ==
  IF IndexOf(ch.begin[stateName], fn) # 0
  THEN [ch EXCEPT !.begin[stateName] = Splice(@, fn)]
  ELSE IF IndexOf(ch.every[stateName], fn) # 0
  THEN [ch EXCEPT !.every[stateName] = Splice(@, fn)]
  ELSE [ch EXCEPT !.end[stateName] = Splice(@, fn)]

\* The channels after fn was invoked with metadata whose to is to.
Called(ch, fn, to) == IF fn = Leaver THEN OffIn(ch, to, fn) ELSE ch

RECURSIVE CalledAll(_, _, _)
\* The channels after the callbacks fns were invoked, in order.
CalledAll(ch, fns, to) ==
  IF fns = <<>> THEN ch ELSE CalledAll(Called(ch, Head(fns), to), Tail(fns), to)

RECURSIVE ForEach(_, _, _, _, _)
\* Array.prototype.forEach over the live array of a channel of state s,
\* from index i on: the callback at index i is invoked and may splice the
\* array; an index the array no longer has is not visited.
ForEach(modifier, s, i, ch, to) ==
  IF i > Len(ch[modifier][s]) THEN [visited |-> <<>>, ch |-> ch]
  ELSE LET fn == ch[modifier][s][i]
           rest == ForEach(modifier, s, i + 1, Called(ch, fn, to), to)
       IN [visited |-> <<fn>> \o rest.visited, ch |-> rest.ch]

\* The callbacks of matcher subscriptions that accept an event from -> to.
MatchedCallbacks(subs, from, to) ==
  LET m == FilterSeq(subs, Metadata(from, to, 0, 0))
  IN [i \in 1..Len(m) |-> m[i].cb]

\* State.exit of cur on the way to next: the 'end' channel.
ExitVisits(cur, next) == ForEach("end", cur, 1, Chans, next)

\* The channels initialiser of s starts from: those the exit of the state
\* that is left has produced.
EnterChans(s, from) == IF from = NULL THEN Chans ELSE ExitVisits(from, s).ch

\* initialiser of s: the 'begin' channel, the 'every' channel, then the
\* matched matcher subscriptions, a filtered copy.
EnterVisits(s, from) ==
  LET begin == ForEach("begin", s, 1, EnterChans(s, from), s)
      every == ForEach("every", s, 1, begin.ch, s)
  IN [begin |-> begin.visited,
      every |-> every.visited,
      ch |-> CalledAll(every.ch, MatchedCallbacks(subscriptionsViaMatcher[s], from, s), s)]

\* ticker of s, then the machine-wide subscribers.
TickVisits(s) ==
  LET every == ForEach("every", s, 1, Chans, s)
      matched == CalledAll(every.ch, MatchedCallbacks(subscriptionsViaMatcher[s], s, s), s)
  IN [every |-> every.visited, ch |-> CalledAll(matched, onTicks, s)]

\* The channel arrays after the call.
Settle(ch) ==
  /\ stateChangeSubscriptions' = ch.begin
  /\ stateTickSubscriptions' = ch.every
  /\ stateEndSubscriptions' = ch.end

\* ------------------------------------------------------ state lifecycle
\* An entry that keeps the duration of the state's earlier dwell.
EnterDurationKept(s, recordDuration) == duration[s]

\* initialiser: if (initData.recordDuration) duration = 0; the duration is
\* reset only when timer mode records durations.
EnterDuration(s, recordDuration) == IF recordDuration THEN 0 ELSE duration[s]

EnterMetadata(s, from, recordDuration) ==
  Metadata(from, s, 0, EnterDuration(s, recordDuration))

\* An initialiser that calls the matching matcher subscriptions before the
\* channels.
EnterLogMatchedFirst(s, data, from, recordDuration) ==
  LET meta == EnterMetadata(s, from, recordDuration)
  IN <<Invocation("enter", initFn[s], data, meta)>>
       \o MatchedFanOut(subscriptionsViaMatcher[s], data, meta)
       \o FanOut("begin", stateChangeSubscriptions[s], data, meta)
       \o FanOut("every", stateTickSubscriptions[s], data, meta)

\* The callbacks initialiser invokes, in order: the user enter-callback, the
\* 'begin' channel, the 'every' channel, the matching matcher subscriptions.
EnterLog(s, data, from, recordDuration) ==
  LET meta == EnterMetadata(s, from, recordDuration)
      visits == EnterVisits(s, from)
  IN <<Invocation("enter", initFn[s], data, meta)>>
       \o FanOut("begin", visits.begin, data, meta)
       \o FanOut("every", visits.every, data, meta)
       \o MatchedFanOut(subscriptionsViaMatcher[s], data, meta)

\* An initialiser whose 'begin' channel fires before the enter-callback.
EnterLogSubscribersFirst(s, data, from, recordDuration) ==
  LET meta == EnterMetadata(s, from, recordDuration)
  IN FanOut("begin", stateChangeSubscriptions[s], data, meta)
       \o <<Invocation("enter", initFn[s], data, meta)>>

\* The callbacks initialiser invokes when the enter-callback throws: the
\* call ends inside fn(data, metadata).
EnterLogThrown(s, data, from, recordDuration) ==
  <<Invocation("enter", initFn[s], data, EnterMetadata(s, from, recordDuration))>>

\* What the caller of init or process sees of an entry into s.
Raised(s) == IF initFn[s] = ThrowingFn THEN "Thrown" ELSE "none"

\* The state changes of initialiser; before is what the call logged so far.
\* The closure variable subscriptionsViaMatcher is reassigned to a new array,
\* so the array the State object exposes is no longer the one that is read.
\* minDuration is resolved here as minTicks is: the duration threshold is
\* not in this source and follows the specification's enter operation.
initialiser(s, data, from, recordDuration, before) ==
  /\ duration' = [duration EXCEPT ![s] = EnterDuration(s, recordDuration)]
  /\ timesEnteredCount' = [timesEnteredCount EXCEPT ![s] = @ + 1]
  /\ minTicks' = [minTicks EXCEPT ![s] = toMinTicks(getMinTicks[s])]
  /\ calls' = CallsAfter(getMinTicks[s])
  /\ minDuration' = [minDuration EXCEPT ![s] = getMinDuration[s]]
  /\ tickCount' = [tickCount EXCEPT ![s] = 0]
  /\ IF initFn[s] = ThrowingFn
     THEN /\ log' = before \o EnterLogThrown(s, data, from, recordDuration)
          /\ Settle(EnterChans(s, from))
          /\ UNCHANGED <<subscriptionsViaMatcher, matcherShared>>
     ELSE /\ subscriptionsViaMatcher' = [subscriptionsViaMatcher EXCEPT
               ![s] = RemoveUnsubscribed(@, EnterMetadata(s, from, recordDuration))]
          /\ matcherShared' = [matcherShared EXCEPT ![s] = FALSE]
          /\ log' = before \o EnterLog(s, data, from, recordDuration)
          /\ Settle(EnterVisits(s, from).ch)
  /\ UNCHANGED <<getMinTicks, getMinDuration, matcherProperty>>

\* A ticker that does not accumulate.
TickDurationFrozen(s, delta) == duration[s]

\* ticker: if (delta && typeof duration === 'number') duration += delta.
TickDuration(s, delta) ==
  IF delta # 0 /\ duration[s] # NullDuration THEN duration[s] + delta ELSE duration[s]

\* Metadata built before the tick is counted.
TickMetadataStale(s, delta) == Metadata(s, s, tickCount[s], TickDuration(s, delta))

TickMetadata(s, delta) == Metadata(s, s, tickCount[s] + 1, TickDuration(s, delta))

\* A ticker that leaves out the 'every' channel.
TickLogSilent(s, data, delta) ==
  LET meta == TickMetadata(s, delta)
  IN MatchedFanOut(subscriptionsViaMatcher[s], data, meta)
       \o <<Invocation("tick", tickFn[s], data, meta)>>

\* The callbacks ticker invokes, in order: the 'every' channel, the matching
\* matcher subscriptions, the user tick-callback.
TickLog(s, data, delta) ==
  LET meta == TickMetadata(s, delta)
  IN FanOut("every", TickVisits(s).every, data, meta)
       \o MatchedFanOut(subscriptionsViaMatcher[s], data, meta)
       \o <<Invocation("tick", tickFn[s], data, meta)>>

\* An exit that ticks the state it leaves before it ends it.
ExitLogAfterTick(s, data, meta) ==
  <<Invocation("tick", tickFn[s], data, meta)>>
    \o FanOut("end", stateEndSubscriptions[s], data, meta)

\* State.exit: the 'end' channel.
ExitLog(s, data, meta) == FanOut("end", ExitVisits(s, meta.to).visited, data, meta)

\* ---------------------------------------------------------------- runtime
\* const delta = deltaAlias ? data[deltaAlias] : null.  A null or missing
\* delta is used only as (delta || 0) and (delta && ...), as 0 is.
Delta(data) == IF deltaAlias = NULL THEN 0 ELSE data.dt

\* A dwell duration that leaves out the delta of the current call.
DwellDurationStale(s, data) ==
  IF deltaAlias = NULL THEN NullDuration
  ELSE (IF duration[s] = NullDuration THEN 0 ELSE duration[s])

\* const duration = deltaAlias ? currentState.duration + (delta || 0) : null
\* (null + n is n).
DwellDuration(s, data) ==
  IF deltaAlias = NULL THEN NullDuration
  ELSE (IF duration[s] = NullDuration THEN 0 ELSE duration[s]) + Delta(data)

\* currentState.duration ? currentState.duration + (delta || 0) : null,
\* for a duration d: 0 and null are both falsy.
TruthyDuration(d, delta) ==
  IF d # NullDuration /\ d # 0 THEN d + delta ELSE NullDuration

Holds(predicate, data) == predicate \in data.preds

\* An exit announced with the state that is left as its target.
ExitMetadataSelf(cur, next, delta) ==
  Metadata(cur, cur, tickCount[cur], TruthyDuration(duration[cur], delta))

\* The metadata process hands to currentState.exit.
ExitMetadata(cur, next, delta) ==
  Metadata(cur, next, tickCount[cur], TruthyDuration(duration[cur], delta))

RECURSIVE FindFrom(_, _, _)
\* transitions.find(...): the index of the first transition at or after i
\* whose predicate holds, 0 when there is none.
FindFrom(trs, data, i) ==
  IF i > Len(trs) THEN 0
  ELSE IF Holds(trs[i].predicate, data) THEN i
  ELSE FindFrom(trs, data, i + 1)

RECURSIVE FindLastFrom(_, _, _)
\* A search that keeps the last transition whose predicate holds.
FindLastFrom(trs, data, i) ==
  IF i = 0 THEN 0
  ELSE IF Holds(trs[i].predicate, data) THEN i
  ELSE FindLastFrom(trs, data, i - 1)

FindLast(trs, data) == FindLastFrom(trs, data, Len(trs))

Find(trs, data) == FindFrom(trs, data, 1)

\* The predicates find evaluates: up to and including the first that holds.
PredicateLog(s, data) ==
  LET trs == transitions[s]
      k == Find(trs, data)
      n == IF k = 0 THEN Len(trs) ELSE k
  IN [i \in 1..n |-> Invocation("predicate", trs[i].predicate, data,
        Metadata(NULL, NULL, tickCount[s], DwellDuration(s, data)))]

\* An off-by-one gate: the dwell must exceed the threshold.
TicksGateStrict(s) == tickCount[s] > minTicks[s]

\* tickCount >= toMinTicks(minTicks): minTicks is the resolved number.
TicksGate(s) == tickCount[s] >= minTicks[s]

\* The dwell's duration has reached the resolved duration threshold; with
\* timer mode off there is no duration and the gate is open.
DurationGate(s, data) ==
  deltaAlias = NULL \/ DwellDuration(s, data) >= minDuration[s]

Admitted(s, data) == TicksGate(s) /\ DurationGate(s, data)

\* The metadata process hands to the machine-wide tick subscribers: the
\* tickCount it read before the tick, and the state's duration after the
\* tick, if truthy, plus the delta.
OnTickMetadata(cur, delta) ==
  Metadata(cur, cur, tickCount[cur], TruthyDuration(TickDuration(cur, delta), delta))

\* A tick that serves the machine-wide subscribers before the state's own.
TickCallLogOnTicksFirst(cur, data, delta) ==
  FanOut("ontick", onTicks, data, OnTickMetadata(cur, delta))
    \o TickLog(cur, data, delta)

\* The else branch of process: currentState.tick, then onTicks.forEach.
TickCallLog(cur, data, delta) ==
  TickLog(cur, data, delta)
    \o FanOut("ontick", onTicks, data, OnTickMetadata(cur, delta))

\* A previous-state pointer that follows the current one.
enteredState(cur, next) == next

\* --------------------------------------------------------- FlightRecorder
Recording == [time |-> 0, count |-> 0, current |-> 0, longest |-> 0]

\* The handlers the recorder subscribes: one closure per state on the
\* state's 'begin' channel, one on the machine-wide tick channel.
enterHandler == [n \in Names |-> "recorder." \o n]
tickHandler == "recorder.tick"

\* ({ delta }) => ...: the recorder reads the delta from the call's data.  A
\* call of the model carries one delta field, read by the machine under its
\* deltaAlias and by the recorder as delta.
RecorderDelta(data) == data.dt

\* An enter handler that leaves the count alone.
EnteredUncounted(rec, stateName) ==
  [records |-> rec.records, currentStateName |-> stateName, currentDuration |-> 0]

\* An enter handler that counts the entry in every Recording.
EnteredEverywhere(rec, stateName) ==
  [records |-> [n \in DOMAIN rec.records |->
                  [rec.records[n] EXCEPT !.count = @ + 1]],
   currentStateName |-> stateName,
   currentDuration |-> 0]

\* The enter handler of a state: next.count++, currentStateName = state,
\* currentDuration = 0.  rec is the recorder's records and closure variables.
Entered(rec, stateName) ==
  [records |-> [rec.records EXCEPT ![stateName].count = @ + 1],
   currentStateName |-> stateName,
   currentDuration |-> 0]

\* A tick handler that adds the delta to the time of every state.
TickedAll(rec, delta) ==
  [rec EXCEPT !.records = [n \in DOMAIN rec.records |->
                             [rec.records[n] EXCEPT !.time = @ + delta]]]

\* The tick handler: the record of the recorder's current state, if there
\* is one, gets the delta added to time; longest follows currentDuration.
Ticked(rec, delta) ==
  IF rec.currentStateName \in DOMAIN rec.records
  THEN LET record == rec.records[rec.currentStateName]
           d == rec.currentDuration + delta
       IN [records |-> [rec.records EXCEPT ![rec.currentStateName] =
                          [record EXCEPT !.time = @ + delta,
                                         !.longest = IF @ < d THEN d ELSE @]],
           currentStateName |-> rec.currentStateName,
           currentDuration |-> d]
  ELSE rec

\* One invocation of a callback, as the recorder sees it.
Handled(rec, inv) ==
  IF inv.kind = "begin" /\ \E n \in Names : inv.cb = enterHandler[n]
  THEN Entered(rec, CHOOSE n \in Names : inv.cb = enterHandler[n])
  ELSE IF inv.kind = "ontick" /\ inv.cb = tickHandler
  THEN Ticked(rec, RecorderDelta(inv.data))
  ELSE rec

RECURSIVE Replay(_, _)
\* The recorder after the invocations l, in order.
Replay(l, rec) == IF l = <<>> THEN rec ELSE Replay(Tail(l), Handled(rec, Head(l)))

\* The effect of an API call's invocations on the recorder.
RunHandlers ==
  LET rec == Replay(log', [records |-> records,
                           currentStateName |-> recorderStateName,
                           currentDuration |-> currentDuration])
  IN /\ records' = rec.records
     /\ recorderStateName' = rec.currentStateName
     /\ currentDuration' = rec.currentDuration

\* previousStateName after a transition from cur to next: the state exited.
\* The pointer is not in this source and follows step 4 of the
\* specification's process.
exitedState(cur, next) == cur

\* The transition process takes, as an index into the current state's
\* transitions; 0 when it ticks instead.
Taken(data) ==
  LET k == Find(transitions[currentStateName], data)
  IN IF k # 0 /\ Admitted(currentStateName, data) THEN k ELSE 0

init(data) ==
  /\ initialiser(initialState, data, NULL, deltaAlias # NULL, <<>>)
  /\ err' = Raised(initialState)
  /\ dwellTime' = [dwellTime EXCEPT ![initialState] = 0]
  /\ RunHandlers
  /\ UNCHANGED <<graphVars, fnVars, onTicks, runVars, previousStateName, fleetVars>>

process(data) ==
  LET cur == currentStateName
      delta == Delta(data)
      k == Taken(data)
  IN IF k # 0
     THEN LET next == transitions[cur][k].state
              exitMeta == ExitMetadata(cur, next, delta)
          IN /\ previousStateName' = exitedState(cur, next)
             /\ dwellTime' = [dwellTime EXCEPT ![next] = 0]
             /\ currentStateName' = next
             /\ initialiser(next, data, cur, deltaAlias # NULL,
                            PredicateLog(cur, data) \o ExitLog(cur, data, exitMeta))
             /\ err' = Raised(next)
             /\ RunHandlers
             /\ UNCHANGED <<graphVars, fnVars, onTicks, deltaAlias, fleetVars>>
     ELSE    /\ duration' = [duration EXCEPT ![cur] = TickDuration(cur, delta)]
             /\ tickCount' = [tickCount EXCEPT ![cur] = @ + 1]
             /\ log' = PredicateLog(cur, data) \o TickCallLog(cur, data, delta)
             /\ err' = "none"
             /\ Settle(TickVisits(cur).ch)
             /\ UNCHANGED <<graphVars, gateVars, timesEnteredCount, fnVars, runVars>>
             /\ UNCHANGED <<onTicks, matcherVars>>
             /\ dwellTime' = [dwellTime EXCEPT ![cur] = @ + data.dt]
             /\ RunHandlers
             /\ UNCHANGED <<previousStateName, fleetVars>>

\* ---------------------------------------------------------- subscriptions
Channel(modifier) ==
  IF modifier = "begin" THEN stateChangeSubscriptions
  ELSE IF modifier = "every" THEN stateTickSubscriptions
  ELSE stateEndSubscriptions

\* on(stateName, fn, modifier) with a state name.
on(stateName, fn, modifier) ==
  IF stateName \notin states
  THEN Throws("NotFound")
  ELSE /\ stateChangeSubscriptions' = IF modifier = "begin"
            THEN [stateChangeSubscriptions EXCEPT ![stateName] = Append(@, fn)]
            ELSE stateChangeSubscriptions
       /\ stateTickSubscriptions' = IF modifier = "every"
            THEN [stateTickSubscriptions EXCEPT ![stateName] = Append(@, fn)]
            ELSE stateTickSubscriptions
       /\ stateEndSubscriptions' = IF modifier = "end"
            THEN [stateEndSubscriptions EXCEPT ![stateName] = Append(@, fn)]
            ELSE stateEndSubscriptions
       /\ err' = "none"
       /\ log' = <<>>
       /\ UNCHANGED restVars
       /\ UNCHANGED <<graphVars, gateVars, counterVars, fnVars, onTicks, matcherVars, runVars>>

\* on('tick', fn): the machine-wide tick channel.
onTick(fn) ==
  /\ onTicks' = Append(onTicks, fn)
  /\ err' = "none"
  /\ log' = <<>>
  /\ UNCHANGED restVars
  /\ UNCHANGED <<graphVars, gateVars, counterVars, fnVars, matcherVars, runVars>>
  /\ UNCHANGED <<stateChangeSubscriptions, stateTickSubscriptions, stateEndSubscriptions>>

\* on(matcher, fn) with a metadata object: the pair is pushed to the array
\* the State object exposes, which is the array initialiser and ticker read
\* only as long as initialiser has not reassigned its closure variable.
onMatcher(from, to, unsub, fn) ==
  IF to = NULL
  THEN Throws("NoTo")
  ELSE IF to \notin states
  THEN Throws("NotFound")
  ELSE LET sub == [from |-> from, to |-> to, unsub |-> unsub, cb |-> fn]
       IN /\ matcherProperty' = [matcherProperty EXCEPT ![to] = Append(@, sub)]
          /\ subscriptionsViaMatcher' = IF matcherShared[to]
               THEN [subscriptionsViaMatcher EXCEPT ![to] = Append(@, sub)]
               ELSE subscriptionsViaMatcher
          /\ err' = "none"
          /\ log' = <<>>
          /\ UNCHANGED restVars
          /\ UNCHANGED <<graphVars, gateVars, counterVars, fnVars, channelVars, matcherShared, runVars>>

\* off(stateName, fn): fn is removed, once, from the first of the 'begin',
\* 'every' and 'end' channels of the state that includes it.
off(stateName, fn) ==
  IF stateName \notin states
  THEN Throws("NotFound")
  ELSE LET inBegin == IndexOf(stateChangeSubscriptions[stateName], fn) # 0
           inEvery == IndexOf(stateTickSubscriptions[stateName], fn) # 0
       IN /\ stateChangeSubscriptions' = IF inBegin
               THEN [stateChangeSubscriptions EXCEPT ![stateName] = Splice(@, fn)]
               ELSE stateChangeSubscriptions
          /\ stateTickSubscriptions' = IF ~inBegin
               THEN [stateTickSubscriptions EXCEPT ![stateName] = Splice(@, fn)]
               ELSE stateTickSubscriptions
          /\ stateEndSubscriptions' = IF ~inBegin /\ ~inEvery
               THEN [stateEndSubscriptions EXCEPT ![stateName] = Splice(@, fn)]
               ELSE stateEndSubscriptions
          /\ err' = "none"
          /\ log' = <<>>
          /\ UNCHANGED restVars
          /\ UNCHANGED <<graphVars, gateVars, counterVars, fnVars, onTicks, matcherVars, runVars>>

\* once(stateName, fn) == on({ to: stateName, shouldUnsubscribe: () => true }, fn)
once(stateName, fn) == onMatcher(NULL, stateName, TRUE, fn)

onEvery(stateName, fn) == on(stateName, fn, "every")

onEnd(stateName, fn) == on(stateName, fn, "end")

\* exit(fn): setExit pushes fn to the dest state's 'end' channel.
exit(fn) ==
  /\ stateEndSubscriptions' = [stateEndSubscriptions EXCEPT ![destState] = Append(@, fn)]
  /\ err' = "none"
  /\ log' = <<>>
  /\ UNCHANGED restVars
  /\ UNCHANGED <<graphVars, gateVars, counterVars, fnVars, matcherVars, runVars>>
  /\ UNCHANGED <<stateChangeSubscriptions, stateTickSubscriptions, onTicks>>

\* A recorder that subscribes by replacing the subscribers it finds.
FlightRecorderExclusive ==
  /\ records' = [n \in states |-> Recording]
  /\ recorderStateName' = ""
  /\ currentDuration' = 0
  /\ stateChangeSubscriptions' = [n \in Names |->
       IF n \in states THEN <<enterHandler[n]>> ELSE stateChangeSubscriptions[n]]
  /\ onTicks' = <<tickHandler>>
  /\ err' = "none"
  /\ log' = <<>>
  /\ UNCHANGED <<previousStateName, dwellTime, fleetVars>>
  /\ UNCHANGED <<graphVars, gateVars, counterVars, fnVars, matcherVars, runVars>>
  /\ UNCHANGED <<stateTickSubscriptions, stateEndSubscriptions>>

\* FlightRecorder(machine): a Recording and an enter handler for each state
\* the machine has at construction, then one machine-wide tick handler.
FlightRecorder ==
  /\ records' = [n \in states |-> Recording]
  /\ recorderStateName' = ""
  /\ currentDuration' = 0
  /\ stateChangeSubscriptions' = [n \in Names |->
       IF n \in states THEN Append(stateChangeSubscriptions[n], enterHandler[n])
       ELSE stateChangeSubscriptions[n]]
  /\ onTicks' = Append(onTicks, tickHandler)
  /\ err' = "none"
  /\ log' = <<>>
  /\ UNCHANGED <<previousStateName, dwellTime, fleetVars>>
  /\ UNCHANGED <<graphVars, gateVars, counterVars, fnVars, matcherVars, runVars>>
  /\ UNCHANGED <<stateTickSubscriptions, stateEndSubscriptions>>

\* ------------------------------------------------------------ machines
\* The machine the variables describe, with the closure variables a
\* recorder keeps for it, as one value.
Current ==
  [initialState |-> initialState,
   states |-> states,
   stateKeys |-> stateKeys,
   transitions |-> transitions,
   homeState |-> homeState,
   destState |-> destState,
   getMinTicks |-> getMinTicks,
   minTicks |-> minTicks,
   calls |-> calls,
   getMinDuration |-> getMinDuration,
   minDuration |-> minDuration,
   tickCount |-> tickCount,
   timesEnteredCount |-> timesEnteredCount,
   duration |-> duration,
   initFn |-> initFn,
   tickFn |-> tickFn,
   stateChangeSubscriptions |-> stateChangeSubscriptions,
   stateTickSubscriptions |-> stateTickSubscriptions,
   stateEndSubscriptions |-> stateEndSubscriptions,
   onTicks |-> onTicks,
   subscriptionsViaMatcher |-> subscriptionsViaMatcher,
   matcherProperty |-> matcherProperty,
   matcherShared |-> matcherShared,
   currentStateName |-> currentStateName,
   deltaAlias |-> deltaAlias,
   previousStateName |-> previousStateName,
   dwellTime |-> dwellTime,
   recorderStateName |-> recorderStateName,
   currentDuration |-> currentDuration,
   log |-> log,
   err |-> err]

\* StateMachine(name): a newly constructed machine, as Init describes it.
Machine(name) ==
  [initialState |-> name,
   states |-> {name},
   stateKeys |-> <<name>>,
   transitions |-> [n \in Names |-> <<>>],
   homeState |-> name,
   destState |-> name,
   getMinTicks |-> [n \in Names |-> Literal(0)],
   minTicks |-> [n \in Names |-> 0],
   calls |-> 0,
   getMinDuration |-> [n \in Names |-> 0],
   minDuration |-> [n \in Names |-> 0],
   tickCount |-> [n \in Names |-> 0],
   timesEnteredCount |-> [n \in Names |-> 0],
   duration |-> [n \in Names |-> NullDuration],
   initFn |-> [n \in Names |-> NOOP],
   tickFn |-> [n \in Names |-> NOOP],
   stateChangeSubscriptions |-> [n \in Names |-> <<>>],
   stateTickSubscriptions |-> [n \in Names |-> <<>>],
   stateEndSubscriptions |-> [n \in Names |-> <<>>],
   onTicks |-> <<>>,
   subscriptionsViaMatcher |-> [n \in Names |-> <<>>],
   matcherProperty |-> [n \in Names |-> <<>>],
   matcherShared |-> [n \in Names |-> TRUE],
   currentStateName |-> name,
   deltaAlias |-> NULL,
   previousStateName |-> NULL,
   dwellTime |-> [n \in Names |-> 0],
   recorderStateName |-> "",
   currentDuration |-> 0,
   log |-> <<>>,
   err |-> "none"]

\* The variables take the values of machine m.
Load(m) ==
  /\ initialState' = m.initialState
  /\ states' = m.states
  /\ stateKeys' = m.stateKeys
  /\ transitions' = m.transitions
  /\ homeState' = m.homeState
  /\ destState' = m.destState
  /\ getMinTicks' = m.getMinTicks
  /\ minTicks' = m.minTicks
  /\ calls' = m.calls
  /\ getMinDuration' = m.getMinDuration
  /\ minDuration' = m.minDuration
  /\ tickCount' = m.tickCount
  /\ timesEnteredCount' = m.timesEnteredCount
  /\ duration' = m.duration
  /\ initFn' = m.initFn
  /\ tickFn' = m.tickFn
  /\ stateChangeSubscriptions' = m.stateChangeSubscriptions
  /\ stateTickSubscriptions' = m.stateTickSubscriptions
  /\ stateEndSubscriptions' = m.stateEndSubscriptions
  /\ onTicks' = m.onTicks
  /\ subscriptionsViaMatcher' = m.subscriptionsViaMatcher
  /\ matcherProperty' = m.matcherProperty
  /\ matcherShared' = m.matcherShared
  /\ currentStateName' = m.currentStateName
  /\ deltaAlias' = m.deltaAlias
  /\ previousStateName' = m.previousStateName
  /\ dwellTime' = m.dwellTime
  /\ recorderStateName' = m.recorderStateName
  /\ currentDuration' = m.currentDuration
  /\ log' = m.log
  /\ err' = m.err

\* const other = StateMachine(name): the program constructs a second
\* machine; the calls that follow still go to the first.
StateMachine(name) ==
  /\ parked' = <<Machine(name)>>
  /\ UNCHANGED <<graphVars, gateVars, counterVars, fnVars, subVars, runVars>>
  /\ UNCHANGED <<previousStateName, dwellTime, recorderVars, initialState, active, log, err>>

\* The host turns to its other machine: the calls that follow go to it.
\* Each machine keeps its own closure variables, the records are shared.
Swap ==
  /\ parked # <<>>
  /\ parked' = <<Current>>
  /\ active' = 3 - active
  /\ Load(parked[1])
  /\ UNCHANGED records

\* The first index of m's keys that the records already hold, 0 if none.
Collision(m, rec) ==
  IF \E i \in 1..Len(m.stateKeys) : m.stateKeys[i] \in DOMAIN rec
  THEN CHOOSE i \in 1..Len(m.stateKeys) :
         /\ m.stateKeys[i] \in DOMAIN rec
         /\ \A j \in 1..(i - 1) : m.stateKeys[j] \notin DOMAIN rec
  ELSE 0

\* The body of machines.forEach for machine m, given the records made so
\* far: the states are taken in key order, each gets a Recording and an
\* enter handler until a key collides; the tick handler is subscribed after
\* the last state.
Attach(m, rec) ==
  LET k == Collision(m, rec)
      done == IF k = 0 THEN Len(m.stateKeys) ELSE k - 1
      added == {m.stateKeys[i] : i \in 1..done}
  IN [machine |-> [m EXCEPT
                     !.stateChangeSubscriptions = [n \in Names |->
                        IF n \in added THEN Append(@[n], enterHandler[n]) ELSE @[n]],
                     !.onTicks = IF k = 0 THEN Append(@, tickHandler) ELSE @,
                     !.recorderStateName = "",
                     !.currentDuration = 0],
      records |-> [n \in DOMAIN rec \cup added |->
                     IF n \in added THEN Recording ELSE rec[n]],
      thrown |-> k # 0]

\* FlightRecorder(machine, other): the machines are attached in argument
\* order; a naming collision throws out of the loop and leaves what was
\* subscribed before it.
FlightRecorderOfBoth ==
  LET first == Attach(Current, [n \in {} |-> Recording])
      second == Attach(parked[1], first.records)
  IN /\ parked # <<>>
     /\ stateChangeSubscriptions' = first.machine.stateChangeSubscriptions
     /\ onTicks' = first.machine.onTicks
     /\ recorderStateName' = first.machine.recorderStateName
     /\ currentDuration' = first.machine.currentDuration
     /\ parked' = <<second.machine>>
     /\ records' = second.records
     /\ err' = IF second.thrown THEN "NamingCollision" ELSE "none"
     /\ log' = <<>>
     /\ UNCHANGED <<previousStateName, dwellTime, initialState, active>>
     /\ UNCHANGED <<graphVars, gateVars, counterVars, fnVars, matcherVars, runVars>>
     /\ UNCHANGED <<stateTickSubscriptions, stateEndSubscriptions>>

\* ------------------------------------------------------- specifications
\* The declaration interface is used at setup time only: builder calls are
\* made before the machine is first stepped.
Stepping == \E n \in Names : timesEnteredCount[n] > 0 \/ tickCount[n] > 0

\* process(data) keeps the counters within the given caps.
WithinCaps(data, maxTicks, maxEntries) ==
  LET k == Taken(data)
  IN IF k # 0
     THEN timesEnteredCount[transitions[currentStateName][k].state] < maxEntries
     ELSE tickCount[currentStateName] < maxTicks

\* Dwell gating in ticks on a two-state graph driven by one predicate.
GateNames == {"idle", "walk"}
GatePreds == {"p1"}
GateData == [preds : SUBSET GatePreds, dt : {0}]
Thresholds == {Literal(i) : i \in 0..MaxMin} \cup {Provider}

Next ==
  \/ ~Stepping /\ \E n \in GateNames : transitionTo(n)
  \/ ~Stepping /\ NumTransitions < MaxTransitions /\ \E p \in GatePreds : when(p)
  \/ ~Stepping /\ NumTransitions < MaxTransitions /\ \E p \in GatePreds : or(p)
  \/ ~Stepping /\ \E n \in GateNames : state(n)
  \/ ~Stepping /\ \E c \in Thresholds : forAtLeast(c)
  \/ timesEnteredCount[initialState] < MaxEntries /\ \E d \in GateData : init(d)
  \/ \E d \in GateData : WithinCaps(d, MaxTicks, MaxEntries) /\ process(d)

Spec == Init /\ [][Next]_vars

\* Transition order: the initial state owns up to OrderMaxTransitions
\* transitions to two other states, guarded by two predicates; every state
\* is gated at 0 or 1 ticks.
OrderData == [preds : SUBSET Preds, dt : {0}]

NextOrder ==
  \/ ~Stepping /\ \E n \in Names : transitionTo(n)
  \/ ~Stepping /\ NumTransitions < OrderMaxTransitions /\ \E p \in Preds : when(p)
  \/ ~Stepping /\ NumTransitions < OrderMaxTransitions /\ \E p \in Preds : or(p)
  \/ ~Stepping /\ forAtLeast(Literal(1))
  \/ timesEnteredCount[initialState] < OrderMaxEntries /\ \E d \in OrderData : init(d)
  \/ \E d \in OrderData : WithinCaps(d, OrderMaxTicks, OrderMaxEntries) /\ process(d)

SpecOrder == Init /\ [][NextOrder]_vars

\* Lifecycle callbacks: a two-state graph whose states may carry a user
\* enter-callback, tick-callback and end-callback.
Unsubscribed(subs, c) == \A i \in 1..Len(subs) : subs[i] # c

NextLife ==
  \/ ~Stepping /\ \E n \in GateNames : transitionTo(n)
  \/ ~Stepping /\ NumTransitions < LifeMaxTransitions /\ \E p \in GatePreds : when(p)
  \/ ~Stepping /\ \E n \in GateNames : state(n)
  \/ ~Stepping /\ andThen(UserFn)
  \/ ~Stepping /\ tick(UserFn)
  \/ ~Stepping /\ Unsubscribed(stateEndSubscriptions[destState], UserFn) /\ exit(UserFn)
  \/ timesEnteredCount[initialState] < LifeMaxEntries /\ \E d \in GateData : init(d)
  \/ \E d \in GateData : WithinCaps(d, LifeMaxTicks, LifeMaxEntries) /\ process(d)

SpecLife == Init /\ [][NextLife]_vars

\* Subscriptions: callbacks subscribed, each at most once per channel, to
\* the channels of one state of a two-state graph; two callbacks on the
\* 'begin' channel, one on each of the others.
OneCb == {"c1"}

Observed(n) ==
  \A m \in Names \ {n} :
    /\ stateChangeSubscriptions[m] = <<>>
    /\ stateTickSubscriptions[m] = <<>>
    /\ stateEndSubscriptions[m] = <<>>
    /\ matcherProperty[m] = <<>>

HasMatcher(n, c) == \E i \in 1..Len(matcherProperty[n]) : matcherProperty[n][i].cb = c

NextSubs ==
  \/ ~Stepping /\ \E n \in GateNames : transitionTo(n)
  \/ ~Stepping /\ NumTransitions < SubMaxTransitions /\ \E p \in GatePreds : when(p)
  \/ ~Stepping /\ \E n \in GateNames : state(n)
  \/ ~Stepping /\ \E n \in GateNames, c \in Cbs :
       Observed(n) /\ Unsubscribed(stateChangeSubscriptions[n], c) /\ on(n, c, "begin")
  \/ ~Stepping /\ \E n \in GateNames, c \in OneCb :
       Observed(n) /\ Unsubscribed(stateTickSubscriptions[n], c) /\ onEvery(n, c)
  \/ ~Stepping /\ \E n \in GateNames, c \in OneCb :
       Observed(n) /\ Unsubscribed(stateEndSubscriptions[n], c) /\ onEnd(n, c)
  \/ \E n \in GateNames, c \in OneCb :
       timesEnteredCount[n] = 0 /\ Observed(n) /\ ~HasMatcher(n, c) /\ once(n, c)
  \/ timesEnteredCount[initialState] < SubMaxEntries /\ \E d \in GateData : init(d)
  \/ \E d \in GateData : WithinCaps(d, SubMaxTicks, SubMaxEntries) /\ process(d)

SpecSubs == Init /\ [][NextSubs]_vars

\* Dwell gating in duration units: literal duration thresholds on a
\* two-state graph with at most one transition per state, driven by calls
\* whose delta field is within MaxDelta.
TimerData == [preds : SUBSET GatePreds, dt : 0..MaxDelta]

NextTimers ==
  \/ ~Stepping /\ \E n \in GateNames : transitionTo(n)
  \/ ~Stepping /\ transitions[homeState] = <<>> /\ \E p \in GatePreds : when(p)
  \/ ~Stepping /\ \E n \in GateNames : state(n)
  \/ ~Stepping /\ \E n \in 0..MaxDuration : forAtLeastDuration(n)
  \/ timesEnteredCount[initialState] < TimerMaxEntries /\ \E d \in TimerData : init(d)
  \/ \E d \in TimerData : WithinCaps(d, TimerMaxTicks, TimerMaxEntries) /\ process(d)

SpecTimers == Init /\ [][NextTimers]_vars

\* Unsubscription: c1 subscribed to any channels of one state, c2 to its
\* 'begin' channel, and either of them unsubscribed with off at any time.
NextOff ==
  \/ ~Stepping /\ \E n \in GateNames : transitionTo(n)
  \/ ~Stepping /\ transitions[homeState] = <<>> /\ \E p \in GatePreds : when(p)
  \/ ~Stepping /\ \E n \in GateNames : state(n)
  \/ ~Stepping /\ \E n \in GateNames, c \in Cbs :
       Observed(n) /\ Unsubscribed(stateChangeSubscriptions[n], c) /\ on(n, c, "begin")
  \/ ~Stepping /\ \E n \in GateNames, c \in OneCb :
       Observed(n) /\ Unsubscribed(stateTickSubscriptions[n], c) /\ onEvery(n, c)
  \/ ~Stepping /\ \E n \in GateNames, c \in OneCb :
       Observed(n) /\ Unsubscribed(stateEndSubscriptions[n], c) /\ onEnd(n, c)
  \/ \E n \in GateNames, c \in Cbs : off(n, c)
  \/ timesEnteredCount[initialState] < OffMaxEntries /\ \E d \in GateData : init(d)
  \/ \E d \in GateData : WithinCaps(d, OffMaxTicks, OffMaxEntries) /\ process(d)

SpecOff == Init /\ [][NextOff]_vars

\* Pattern matching: c1 subscribed at any time, at most once per state, by
\* a matcher { from, to } whose from is unset or a state other than to.
NextMatch ==
  \/ ~Stepping /\ \E n \in GateNames : transitionTo(n)
  \/ ~Stepping /\ transitions[homeState] = <<>> /\ \E p \in GatePreds : when(p)
  \/ ~Stepping /\ \E n \in GateNames : state(n)
  \/ \E to \in GateNames, from \in {NULL} \cup GateNames, c \in OneCb :
       from # to /\ Observed(to) /\ ~HasMatcher(to, c) /\ onMatcher(from, to, FALSE, c)
  \/ timesEnteredCount[initialState] < MatchMaxEntries /\ \E d \in GateData : init(d)
  \/ \E d \in GateData : WithinCaps(d, MatchMaxTicks, MatchMaxEntries) /\ process(d)

SpecMatch == Init /\ [][NextMatch]_vars

\* Tick and duration accounting: timer mode on or off, c1 subscribed to the
\* 'begin' and 'every' channels of one state, calls whose delta field is
\* within MaxDelta.
NextClock ==
  \/ ~Stepping /\ \E n \in GateNames : transitionTo(n)
  \/ ~Stepping /\ transitions[homeState] = <<>> /\ \E p \in GatePreds : when(p)
  \/ ~Stepping /\ \E n \in GateNames : state(n)
  \/ ~Stepping /\ timers(DefaultAlias)
  \/ ~Stepping /\ \E n \in GateNames, c \in OneCb :
       Observed(n) /\ Unsubscribed(stateChangeSubscriptions[n], c) /\ on(n, c, "begin")
  \/ ~Stepping /\ \E n \in GateNames, c \in OneCb :
       Observed(n) /\ Unsubscribed(stateTickSubscriptions[n], c) /\ onEvery(n, c)
  \/ timesEnteredCount[initialState] < ClockMaxEntries /\ \E d \in TimerData : init(d)
  \/ \E d \in TimerData : WithinCaps(d, ClockMaxTicks, ClockMaxEntries) /\ process(d)

SpecClock == Init /\ [][NextClock]_vars

\* A recorder attached to a built machine before any call of init or process;
\* timer mode is off and each call carries a delta within MaxDelta.
Attached == DOMAIN records # {}

NextRecorder ==
  \/ ~Attached /\ \E n \in GateNames : transitionTo(n)
  \/ ~Attached /\ transitions[homeState] = <<>> /\ \E p \in GatePreds : when(p)
  \/ ~Attached /\ \E n \in GateNames : state(n)
  \/ ~Attached /\ FlightRecorder
  \/ Attached /\ timesEnteredCount[initialState] < RecMaxEntries /\ \E d \in TimerData : init(d)
  \/ Attached /\ \E d \in TimerData : WithinCaps(d, RecMaxTicks, RecMaxEntries) /\ process(d)

SpecRecorder == Init /\ [][NextRecorder]_vars

\* The same, with init called once, before the first process call.
NextFlight ==
  \/ ~Attached /\ \E n \in GateNames : transitionTo(n)
  \/ ~Attached /\ transitions[homeState] = <<>> /\ \E p \in GatePreds : when(p)
  \/ ~Attached /\ \E n \in GateNames : state(n)
  \/ ~Attached /\ FlightRecorder
  \/ Attached /\ ~Stepping /\ \E d \in TimerData : init(d)
  \/ /\ Attached /\ timesEnteredCount[initialState] > 0
     /\ \E d \in TimerData : WithinCaps(d, RecMaxTicks, RecMaxEntries) /\ process(d)

SpecFlight == Init /\ [][NextFlight]_vars

\* A recorder attached at any moment of the machine's run, once.
NextLate ==
  \/ ~Stepping /\ \E n \in GateNames : transitionTo(n)
  \/ ~Stepping /\ transitions[homeState] = <<>> /\ \E p \in GatePreds : when(p)
  \/ ~Stepping /\ \E n \in GateNames : state(n)
  \/ ~Attached /\ FlightRecorder
  \/ timesEnteredCount[initialState] < RecMaxEntries /\ \E d \in TimerData : init(d)
  \/ \E d \in TimerData : WithinCaps(d, RecMaxTicks, RecMaxEntries) /\ process(d)

SpecLate == Init /\ [][NextLate]_vars

\* Throwing enter-callbacks: each state of a two-state graph may carry an
\* enter-callback that throws; c1 may be subscribed to the 'end' channel of
\* any state and to the entry channels of the states whose enter-callback
\* throws.
NextThrow ==
  \/ ~Stepping /\ \E n \in GateNames : transitionTo(n)
  \/ ~Stepping /\ transitions[homeState] = <<>> /\ \E p \in GatePreds : when(p)
  \/ ~Stepping /\ \E n \in GateNames : state(n)
  \/ ~Stepping /\ initFn[destState] = NOOP /\ andThen(ThrowingFn)
  \/ ~Stepping /\ \E n \in GateNames, c \in OneCb :
       /\ initFn[n] = ThrowingFn /\ Unsubscribed(stateChangeSubscriptions[n], c)
       /\ on(n, c, "begin")
  \/ ~Stepping /\ \E n \in GateNames, c \in OneCb :
       /\ initFn[n] = ThrowingFn /\ Unsubscribed(stateTickSubscriptions[n], c)
       /\ onEvery(n, c)
  \/ ~Stepping /\ \E n \in GateNames, c \in OneCb :
       Unsubscribed(stateEndSubscriptions[n], c) /\ onEnd(n, c)
  \/ ~Stepping /\ \E n \in GateNames, c \in OneCb :
       /\ initFn[n] = ThrowingFn /\ ~HasMatcher(n, c)
       /\ onMatcher(NULL, n, FALSE, c)
  \/ timesEnteredCount[initialState] < ThrowMaxEntries /\ \E d \in GateData : init(d)
  \/ \E d \in GateData : WithinCaps(d, ThrowMaxTicks, ThrowMaxEntries) /\ process(d)

SpecThrow == Init /\ [][NextThrow]_vars

\* Entries: one state of a two-state graph carries a user enter-callback,
\* subscribers on its 'begin' and 'every' channels, a once subscriber and a
\* pattern-matched subscriber, all registered before the first call.
NextEntry ==
  \/ ~Stepping /\ \E n \in GateNames : transitionTo(n)
  \/ ~Stepping /\ transitions[homeState] = <<>> /\ \E p \in GatePreds : when(p)
  \/ ~Stepping /\ \E n \in GateNames : state(n)
  \/ ~Stepping /\ (\A n \in Names : initFn[n] = NOOP) /\ andThen(UserFn)
  \/ ~Stepping /\ \E n \in GateNames, c \in OneCb :
       /\ initFn[n] = UserFn /\ Unsubscribed(stateChangeSubscriptions[n], c)
       /\ on(n, c, "begin")
  \/ ~Stepping /\ \E n \in GateNames, c \in OneCb :
       /\ initFn[n] = UserFn /\ Unsubscribed(stateTickSubscriptions[n], c)
       /\ onEvery(n, c)
  \/ ~Stepping /\ \E n \in GateNames :
       initFn[n] = UserFn /\ ~HasMatcher(n, "c1") /\ once(n, "c1")
  \/ ~Stepping /\ \E n \in GateNames, f \in {NULL} \cup GateNames :
       /\ initFn[n] = UserFn /\ f # n /\ ~HasMatcher(n, "c2")
       /\ onMatcher(f, n, FALSE, "c2")
  \/ timesEnteredCount[initialState] < EntryMaxEntries /\ \E d \in GateData : init(d)
  \/ \E d \in GateData : WithinCaps(d, EntryMaxTicks, EntryMaxEntries) /\ process(d)

SpecEntry == Init /\ [][NextEntry]_vars

\* Two machines under one recorder: the first is built on idle, the second
\* on jump, each may declare a transition to walk and back; the recorder is
\* constructed over both before either is stepped, and every later call
\* carries delta 1.
FleetData == [preds : SUBSET GatePreds, dt : {1}]
Collided == err = "NamingCollision"
Untouched(m) == \A n \in Names : m.timesEnteredCount[n] = 0 /\ m.tickCount[n] = 0

NextFleet ==
  \/ ~Attached /\ ~Stepping /\ parked = <<>> /\ StateMachine("jump")
  \/ ~Attached /\ ~Stepping /\ transitionTo("walk")
  \/ ~Attached /\ ~Stepping /\ transitions[homeState] = <<>> /\ \E p \in GatePreds : when(p)
  \/ ~Attached /\ ~Stepping /\ state("walk")
  \/ ~Collided /\ Swap
  \/ ~Attached /\ ~Stepping /\ parked # <<>> /\ Untouched(parked[1]) /\ FlightRecorderOfBoth
  \/ Attached /\ ~Collided /\ timesEnteredCount[initialState] < FleetMaxEntries
       /\ \E d \in FleetData : init(d)
  \/ Attached /\ ~Collided
       /\ \E d \in FleetData : WithinCaps(d, FleetMaxTicks, FleetMaxEntries) /\ process(d)

SpecFleet == Init /\ [][NextFleet]_vars

\* Two machines driven in step: the host makes each init or process call
\* on machine 1 and then makes the same call on machine 2.
Level(m) == <<m.currentStateName, m.tickCount, m.timesEnteredCount>>
Synced == parked # <<>> /\ Level(Current) = Level(parked[1])

\* The call last made on the other machine, made on this one.
Echo ==
  LET l == parked[1].log
  IN /\ l # <<>>
     /\ IF l[1].kind = "enter" THEN init(l[1].data) ELSE process(l[1].data)

\* A recorded machine and its unrecorded twin: both are built on idle by
\* the same declaration, with c1 subscribed to 'begin' channels and to the
\* machine-wide tick channel; the recorder is attached to machine 1.
NextTwin ==
  \/ ~Attached /\ ~Stepping /\ parked = <<>> /\ StateMachine("idle")
  \/ ~Attached /\ ~Stepping /\ \E n \in GateNames : transitionTo(n)
  \/ ~Attached /\ ~Stepping /\ transitions[homeState] = <<>> /\ \E p \in GatePreds : when(p)
  \/ ~Attached /\ ~Stepping /\ \E n \in GateNames : state(n)
  \/ ~Attached /\ ~Stepping /\ \E n \in GateNames, c \in OneCb :
       Unsubscribed(stateChangeSubscriptions[n], c) /\ on(n, c, "begin")
  \/ ~Attached /\ ~Stepping /\ \E c \in OneCb : Unsubscribed(onTicks, c) /\ onTick(c)
  \/ ~Attached /\ ~Stepping /\ parked # <<>> /\ Untouched(parked[1]) /\ Swap
  \/ ~Attached /\ active = 1 /\ parked # <<>> /\ Current = parked[1] /\ FlightRecorder
  \/ Attached /\ active = 1 /\ Synced /\ timesEnteredCount[initialState] < TwinMaxEntries
       /\ \E d \in GateData : init(d)
  \/ Attached /\ active = 1 /\ Synced
       /\ \E d \in GateData : WithinCaps(d, TwinMaxTicks, TwinMaxEntries) /\ process(d)
  \/ Attached /\ (active = 1) # Synced /\ Swap
  \/ Attached /\ active = 2 /\ ~Synced /\ Echo

SpecTwin == Init /\ [][NextTwin]_vars

\* Two machines built by the same declaration, neither recorded: a graph on
\* idle and walk with at most one transition per state, thresholds given
\* by the provider, c1 subscribed to walk; the host declares the first
\* machine, then the second, and turns back to the first.
Building == ~Stepping /\ (IF parked = <<>> THEN TRUE ELSE Untouched(parked[1]))

NextPair ==
  \/ Building /\ parked = <<>> /\ StateMachine("idle")
  \/ Building /\ \E n \in GateNames : transitionTo(n)
  \/ Building /\ transitions[homeState] = <<>> /\ \E p \in GatePreds : when(p)
  \/ Building /\ \E n \in GateNames : state(n)
  \/ Building /\ ~getMinTicks[destState].fn /\ forAtLeast(Provider)
  \/ Building /\ \E c \in OneCb :
       Unsubscribed(stateChangeSubscriptions["walk"], c) /\ on("walk", c, "begin")
  \/ Building /\ parked # <<>> /\ (active = 2 => Current = parked[1]) /\ Swap
  \/ active = 1 /\ Synced /\ (IF Untouched(Current) THEN Current = parked[1] ELSE TRUE)
       /\ timesEnteredCount[initialState] < PairMaxEntries
       /\ \E d \in GateData : init(d)
  \/ active = 1 /\ Synced /\ (IF Untouched(Current) THEN Current = parked[1] ELSE TRUE)
       /\ \E d \in GateData : WithinCaps(d, PairMaxTicks, PairMaxEntries) /\ process(d)
  \/ ~Building /\ (active = 1) # Synced /\ Swap
  \/ active = 2 /\ ~Synced /\ Echo

SpecPair == Init /\ [][NextPair]_vars

\* The machine-wide tick channel: c1 and c2 subscribed to it at any time,
\* one state with c1 on its 'every' channel, a matcher subscription of c1
\* and a user tick-callback.
NextWide ==
  \/ ~Stepping /\ \E n \in GateNames : transitionTo(n)
  \/ ~Stepping /\ transitions[homeState] = <<>> /\ \E p \in GatePreds : when(p)
  \/ ~Stepping /\ \E n \in GateNames : state(n)
  \/ ~Stepping /\ (\A n \in Names : tickFn[n] = NOOP) /\ tick(UserFn)
  \/ ~Stepping /\ tickFn[destState] = UserFn
       /\ Unsubscribed(stateTickSubscriptions[destState], "c1") /\ onEvery(destState, "c1")
  \/ ~Stepping /\ tickFn[destState] = UserFn
       /\ ~HasMatcher(destState, "c1") /\ onMatcher(NULL, destState, FALSE, "c1")
  \/ \E c \in Cbs : Unsubscribed(onTicks, c) /\ onTick(c)
  \/ timesEnteredCount[initialState] < WideMaxEntries /\ \E d \in GateData : init(d)
  \/ \E d \in GateData : WithinCaps(d, WideMaxTicks, WideMaxEntries) /\ process(d)

SpecWide == Init /\ [][NextWide]_vars

\* Metadata of ticks and exits: timer mode on or off, c1 subscribed to the
\* 'every' and 'end' channels of one state and to the machine-wide tick
\* channel, calls whose delta field is within MaxDelta.
NextMeta ==
  \/ ~Stepping /\ \E n \in GateNames : transitionTo(n)
  \/ ~Stepping /\ transitions[homeState] = <<>> /\ \E p \in GatePreds : when(p)
  \/ ~Stepping /\ \E n \in GateNames : state(n)
  \/ ~Stepping /\ timers(DefaultAlias)
  \/ ~Stepping /\ \E n \in GateNames, c \in OneCb :
       Observed(n) /\ Unsubscribed(stateTickSubscriptions[n], c) /\ onEvery(n, c)
  \/ ~Stepping /\ \E n \in GateNames, c \in OneCb :
       Observed(n) /\ Unsubscribed(stateEndSubscriptions[n], c) /\ onEnd(n, c)
  \/ ~Stepping /\ \E c \in OneCb : Unsubscribed(onTicks, c) /\ onTick(c)
  \/ timesEnteredCount[initialState] < MetaMaxEntries /\ \E d \in TimerData : init(d)
  \/ \E d \in TimerData : WithinCaps(d, MetaMaxTicks, MetaMaxEntries) /\ process(d)

SpecMeta == Init /\ [][NextMeta]_vars

\* One matcher subscription of c1, registered at any time: a one-shot
\* subscription by once, or a pattern subscription on a state that has
\* been entered.
Unmatched == \A m \in Names : matcherProperty[m] = <<>>

NextOnce ==
  \/ ~Stepping /\ \E n \in GateNames : transitionTo(n)
  \/ ~Stepping /\ transitions[homeState] = <<>> /\ \E p \in GatePreds : when(p)
  \/ ~Stepping /\ \E n \in GateNames : state(n)
  \/ Unmatched /\ \E n \in GateNames : once(n, "c1")
  \/ Unmatched /\ \E to \in GateNames, from \in {NULL} \cup GateNames :
       from # to /\ timesEnteredCount[to] > 0 /\ onMatcher(from, to, FALSE, "c1")
  \/ timesEnteredCount[initialState] < OnceMaxEntries /\ \E d \in GateData : init(d)
  \/ \E d \in GateData : WithinCaps(d, OnceMaxTicks, OnceMaxEntries) /\ process(d)

SpecOnce == Init /\ [][NextOnce]_vars

\* Counters: a two-state graph with at most one transition per state, timer
\* mode on or off, calls whose delta field is within MaxDelta, states
\* entered more than once.
NextFrame ==
  \/ ~Stepping /\ \E n \in GateNames : transitionTo(n)
  \/ ~Stepping /\ transitions[homeState] = <<>> /\ \E p \in GatePreds : when(p)
  \/ ~Stepping /\ \E n \in GateNames : state(n)
  \/ ~Stepping /\ timers(DefaultAlias)
  \/ timesEnteredCount[initialState] < FrameMaxEntries /\ \E d \in TimerData : init(d)
  \/ \E d \in TimerData : WithinCaps(d, FrameMaxTicks, FrameMaxEntries) /\ process(d)

SpecFrame == Init /\ [][NextFrame]_vars

\* Removal during a fan-out: on one state, c1, c2 and a subscriber that
\* unsubscribes itself on the 'begin' channel, c1 and such a subscriber on
\* the 'every' channel, and a one-shot subscription of c1.
NextLive ==
  \/ ~Stepping /\ \E n \in GateNames : transitionTo(n)
  \/ ~Stepping /\ transitions[homeState] = <<>> /\ \E p \in GatePreds : when(p)
  \/ ~Stepping /\ \E n \in GateNames : state(n)
  \/ ~Stepping /\ \E n \in GateNames, c \in Cbs \cup {Leaver} :
       Observed(n) /\ Unsubscribed(stateChangeSubscriptions[n], c) /\ on(n, c, "begin")
  \/ ~Stepping /\ \E n \in GateNames, c \in OneCb \cup {Leaver} :
       Observed(n) /\ Unsubscribed(stateTickSubscriptions[n], c) /\ onEvery(n, c)
  \/ ~Stepping /\ \E n \in GateNames, c \in OneCb :
       Observed(n) /\ ~HasMatcher(n, c) /\ once(n, c)
  \/ timesEnteredCount[initialState] < LiveMaxEntries /\ \E d \in GateData : init(d)
  \/ \E d \in GateData : WithinCaps(d, LiveMaxTicks, LiveMaxEntries) /\ process(d)

SpecLive == Init /\ [][NextLive]_vars

\* ------------------------------------------------------------ properties
\* The states an API call entered and the callbacks it invoked, read off the
\* invocations it logged.
Indices(l, kind) == {i \in 1..Len(l) : l[i].kind = kind}
EnteredBy(l) == {l[i].meta.to : i \in Indices(l, "enter")}
SomePredicateHolds(s, data) ==
  \E i \in 1..Len(transitions[s]) : Holds(transitions[s][i].predicate, data)

\* The threshold a host expects to be in force in state s: the declared
\* literal, or the value the provider returned at the entry.
ExpectedMinTicks(s) == IF getMinTicks[s].fn THEN minTicks[s] ELSE getMinTicks[s].val

\* C1: in a dwell entered with resolved minimum-ticks n, a process call made
\* while tickCount < n ticks and leaves the current state unchanged, even when
\* a predicate holds; once tickCount >= n, a process call with a predicate
\* that holds transitions.
C1_TickGate ==
  [][\A d \in GateData :
       (process(d) /\ timesEnteredCount[currentStateName] > 0) =>
         LET cur == currentStateName
             n == ExpectedMinTicks(cur)
         IN /\ tickCount[cur] < n =>
                 /\ currentStateName' = cur
                 /\ tickCount'[cur] = tickCount[cur] + 1
            /\ (tickCount[cur] >= n /\ SomePredicateHolds(cur, d)) =>
                 /\ currentStateName' # cur
                 /\ tickCount'[cur] = tickCount[cur]]_vars

\* idle, gated at the literal 2, has been left on the third process call of
\* its second dwell, as it was of its first.
C1_Witness ==
  /\ getMinTicks["idle"] = Literal(2)
  /\ timesEnteredCount["idle"] = 2
  /\ tickCount["idle"] = 2
  /\ currentStateName = "walk"
  /\ timesEnteredCount["walk"] = 2
  /\ tickCount["walk"] = 0

\* C5: a provider threshold is invoked exactly once by every entry into its
\* state and by nothing else; the value it returned is the state's gate, and
\* the gate of a state changes only when that state is entered.
C5_ProviderPerEntry ==
  [][LET entered == EnteredBy(log')
     IN /\ calls' = calls + Cardinality({n \in entered : getMinTicks[n].fn})
        /\ \A n \in entered : getMinTicks[n].fn => minTicks'[n] = calls + 1
        /\ \A n \in Names \ entered : minTicks'[n] = minTicks[n]]_vars

\* The shared provider has gated three successive entries at 1, 2 and 3
\* ticks: idle's second dwell, gated at 3, ended after 3 ticks.
C5_Witness ==
  /\ getMinTicks["idle"] = Provider
  /\ getMinTicks["walk"] = Provider
  /\ calls = 4
  /\ minTicks["idle"] = 3
  /\ tickCount["idle"] = 3
  /\ currentStateName = "walk"
  /\ minTicks["walk"] = 4

\* The transitions of s that are the first whose predicate holds of data.
FirstHolding(s, data) ==
  {j \in 1..Len(transitions[s]) :
     /\ Holds(transitions[s][j].predicate, data)
     /\ \A i \in 1..(j - 1) : ~Holds(transitions[s][i].predicate, data)}

\* C2: a process call that transitions enters the target of the
\* earliest-declared transition whose predicate holds of its data, and no
\* other state.
C2_FirstMatch ==
  [][\A d \in OrderData :
       (process(d) /\ EnteredBy(log') # {}) =>
         \E j \in FirstHolding(currentStateName, d) :
           /\ currentStateName' = transitions[currentStateName][j].state
           /\ EnteredBy(log') = {transitions[currentStateName][j].state}]_vars

\* Both predicates held and the machine took the first-declared transition.
C2_Witness ==
  /\ transitions["idle"] = <<[predicate |-> "p1", state |-> "walk"],
                             [predicate |-> "p2", state |-> "jump"]>>
  /\ currentStateName = "walk"
  /\ \E i \in Indices(log, "enter") :
       /\ log[i].data.preds = {"p1", "p2"}
       /\ log[i].meta.from = "idle"
       /\ log[i].meta.to = "walk"

\* C6: a builder call that asks for a transition from a state to itself
\* throws and adds neither a state nor a transition; no state owns a
\* transition to itself; a transitioning process call changes the current
\* state.
C6_NoSelfTransition ==
  [][/\ \A n \in Names : (transitionTo(n) /\ n = homeState) => err' = "SameState"
     /\ \A p \in GatePreds : ((when(p) \/ or(p)) /\ homeState = destState) => err' = "SameState"
     /\ err' = "SameState" => (states' = states /\ transitions' = transitions)
     /\ \A s \in Names : \A i \in 1..Len(transitions'[s]) : transitions'[s][i].state # s
     /\ \A d \in GateData :
          (process(d) /\ EnteredBy(log') # {}) => currentStateName' # currentStateName]_vars

\* transitionTo('walk').state('walk').when(p) has thrown, and the graph is
\* as it was.
C6_Witness ==
  /\ err = "SameState"
  /\ homeState = "walk"
  /\ destState = "walk"
  /\ states = {"idle", "walk"}
  /\ transitions = [n \in Names |-> <<>>]

\* The callbacks an API call invoked on one channel, in invocation order.
CallbacksOf(l, kind) ==
  LET sel == SelectSeq(l, LAMBDA r : r.kind = kind)
  IN [i \in 1..Len(sel) |-> sel[i].cb]

\* C3: every process call either transitions (the end subscribers of the
\* state it leaves fire, then the enter-callback of the destination; the
\* tick-callback of the state it leaves is not called and its tickCount does
\* not change) or ticks (the current state's tick-callback is called once,
\* its tickCount grows by one, no enter-callback and no end subscriber fires).
C3_TickOrTransition ==
  [][\A d \in GateData : process(d) =>
       LET cur == currentStateName
           next == currentStateName'
           enters == Indices(log', "enter")
           ticks == Indices(log', "tick")
           ends == Indices(log', "end")
       IN \/ /\ next # cur
             /\ ticks = {}
             /\ tickCount'[cur] = tickCount[cur]
             /\ CallbacksOf(log', "end") = stateEndSubscriptions[cur]
             /\ \A i \in ends : log'[i].meta.from = cur
             /\ CallbacksOf(log', "enter") = <<initFn[next]>>
             /\ \A i \in enters : log'[i].meta.to = next /\ \A j \in ends : j < i
          \/ /\ next = cur
             /\ enters = {}
             /\ ends = {}
             /\ CallbacksOf(log', "tick") = <<tickFn[cur]>>
             /\ \A i \in ticks : log'[i].meta.to = cur
             /\ tickCount'[cur] = tickCount[cur] + 1]_vars

\* idle carries the three user callbacks; it ticked once and was then left
\* for walk by a call that invoked its end-callback and walk's
\* enter-callback, and no tick-callback.
C3_Witness ==
  /\ tickFn["idle"] = UserFn
  /\ stateEndSubscriptions["idle"] = <<UserFn>>
  /\ initFn["walk"] = UserFn
  /\ tickCount["idle"] = 1
  /\ currentStateName = "walk"
  /\ CallbacksOf(log, "end") = <<UserFn>>
  /\ CallbacksOf(log, "enter") = <<UserFn>>
  /\ CallbacksOf(log, "tick") = <<>>

\* The steps a subscription is about: an entry into n by init or by a
\* transition, a non-transitioning process call made while n is current, a
\* transition out of n.
EntryInto(n) ==
  \/ n = initialState /\ \E d \in GateData : init(d)
  \/ currentStateName # n /\ currentStateName' = n /\ \E d \in GateData : process(d)
TickOf(n) ==
  currentStateName = n /\ currentStateName' = n /\ \E d \in GateData : process(d)
ExitFrom(n) ==
  currentStateName = n /\ currentStateName' # n /\ \E d \in GateData : process(d)

\* The callbacks a call invoked on one channel for the state n it entered or
\* ticked (metadata to = n), in invocation order.
CallbacksFor(l, kind, n) ==
  LET sel == SelectSeq(l, LAMBDA r : r.kind = kind /\ r.meta.to = n)
  IN [i \in 1..Len(sel) |-> sel[i].cb]

\* C7: on every entry into S and on every non-transitioning process call
\* made while S is current, each onEvery subscriber of S is invoked exactly
\* once; a call that neither enters nor ticks S invokes none of them.
C7_EveryFanOut ==
  [][\A n \in GateNames :
       IF EntryInto(n) \/ TickOf(n)
       THEN CallbacksFor(log', "every", n) = stateTickSubscriptions[n]
       ELSE CallbacksFor(log', "every", n) = <<>>]_vars

\* walk's onEvery subscriber was invoked by the entry into walk and is
\* invoked again, with tickCount 1, by the tick that follows.
C7_Witness ==
  /\ stateTickSubscriptions["walk"] = <<"c1">>
  /\ currentStateName = "walk"
  /\ tickCount["walk"] = 1
  /\ CallbacksFor(log, "every", "walk") = <<"c1">>
  /\ \A i \in Indices(log, "every") : log[i].meta.tickCount = 1

\* C8: every entry into S, the first and every later one, invokes the
\* 'begin' subscribers of S once each, in registration order; a tick of S, an
\* exit from S and any other call invoke none of them.
C8_BeginFanOut ==
  [][\A n \in GateNames :
       IF EntryInto(n)
       THEN CallbacksFor(log', "begin", n) = stateChangeSubscriptions[n]
       ELSE CallbacksFor(log', "begin", n) = <<>>]_vars

\* walk, subscribed to by c2 and then by c1, is entered for the second time:
\* c2 is invoked before c1.
C8_Witness ==
  /\ stateChangeSubscriptions["walk"] = <<"c2", "c1">>
  /\ timesEnteredCount["walk"] = 2
  /\ tickCount["walk"] = 0
  /\ currentStateName = "walk"
  /\ CallbacksFor(log, "begin", "walk") = <<"c2", "c1">>

\* C9: a process call that transitions out of S invokes the onEnd
\* subscribers of S once each, with from = S and to = the destination, before
\* the destination's enter-callback; an entry into S, a tick of S and any
\* other call invoke none of them.
C9_EndFanOut ==
  [][\A n \in GateNames :
       LET ends == {i \in Indices(log', "end") : log'[i].meta.from = n}
       IN IF ExitFrom(n)
          THEN /\ CallbacksOf(log', "end") = stateEndSubscriptions[n]
               /\ Indices(log', "end") = ends
               /\ \A i \in ends : log'[i].meta.to = currentStateName'
               /\ \A i \in ends : \A j \in Indices(log', "enter") : i < j
               /\ Indices(log', "enter") # {}
          ELSE ends = {}]_vars

\* walk's onEnd subscriber was invoked by the transition from walk to idle,
\* after walk had been entered and had ticked.
C9_Witness ==
  /\ stateEndSubscriptions["walk"] = <<"c1">>
  /\ currentStateName = "idle"
  /\ timesEnteredCount["walk"] = 1
  /\ tickCount["walk"] = 1
  /\ \E i \in Indices(log, "end") :
       /\ log[i].cb = "c1"
       /\ log[i].meta.from = "walk"
       /\ log[i].meta.to = "idle"

\* The callbacks of the subscriptions registered by matcher on n.
MatcherCallbacks(n) == [i \in 1..Len(matcherProperty[n]) |-> matcherProperty[n][i].cb]

\* C10: the first entry into S invokes every callback registered with
\* once(S, cb) before it, once; no later call invokes it: neither a tick of
\* S nor a later entry into S.
C10_Once ==
  [][\A n \in GateNames :
       IF timesEnteredCount[n] = 0
       THEN EntryInto(n) => CallbacksFor(log', "match", n) = MatcherCallbacks(n)
       ELSE CallbacksFor(log', "match", n) = <<>>]_vars

\* walk, subscribed to once, has been entered twice and has ticked; the
\* second entry did not invoke the subscriber.
C10_Witness ==
  /\ MatcherCallbacks("walk") = <<"c1">>
  /\ timesEnteredCount["walk"] = 2
  /\ tickCount["walk"] = 0
  /\ currentStateName = "walk"
  /\ CallbacksOf(log, "enter") # <<>>
  /\ CallbacksOf(log, "match") = <<>>

C12_CurrentDuringEntry ==
  [][\A i \in Indices(log', "enter") \cup Indices(log', "begin") :
       log'[i].meta.to = currentStateName']_vars

\* C14: previousState() is null until the first transition; a process call
\* that transitions sets it to the state it exits; no other call changes it.
C14_PreviousState ==
  /\ previousStateName = NULL
  /\ [][IF \E n \in GateNames : ExitFrom(n)
        THEN previousStateName' = currentStateName
        ELSE previousStateName' = previousStateName]_vars

\* The machine went from idle to walk and back and has ticked in idle since:
\* the state it exited last is still walk.
C14_Witness ==
  /\ previousStateName = "walk"
  /\ currentStateName = "idle"
  /\ timesEnteredCount["walk"] = 1
  /\ tickCount["idle"] = 1
  /\ CallbacksOf(log, "tick") # <<>>

\* The subscribers of a channel other than c, in order.
Others(subs, c) == SelectSeq(subs, LAMBDA x : x # c)

\* C13: once off(S, cb) has returned, cb is on none of the 'begin', 'every'
\* and 'end' channels of S, the channels whose fan-outs are the invocations
\* of S's subscribers, so no later init or process call invokes it through
\* them; the other subscribers of S and the channels of the other states
\* are as they were.
C13_Off ==
  [][\A n \in GateNames, c \in Cbs :
       (n \in states /\ off(n, c)) =>
         /\ Unsubscribed(stateChangeSubscriptions'[n], c)
         /\ Unsubscribed(stateTickSubscriptions'[n], c)
         /\ Unsubscribed(stateEndSubscriptions'[n], c)
         /\ Others(stateChangeSubscriptions'[n], c) = Others(stateChangeSubscriptions[n], c)
         /\ Others(stateTickSubscriptions'[n], c) = Others(stateTickSubscriptions[n], c)
         /\ Others(stateEndSubscriptions'[n], c) = Others(stateEndSubscriptions[n], c)
         /\ \A m \in Names \ {n} :
              /\ stateChangeSubscriptions'[m] = stateChangeSubscriptions[m]
              /\ stateTickSubscriptions'[m] = stateTickSubscriptions[m]
              /\ stateEndSubscriptions'[m] = stateEndSubscriptions[m]]_vars

\* The number of invocations of c a call made for the state n.
Invoked(l, kind, c, n) ==
  Cardinality({i \in Indices(l, kind) : l[i].cb = c /\ l[i].meta.to = n})

\* C11: a subscription registered with on({from: A, to: B}, cb) is invoked,
\* once, by the calls that enter B from A and by no other call; a
\* subscription registered with on({to: B}, cb) is invoked by every entry
\* into B.
C11_PatternMatch ==
  [][\A n \in GateNames : \A k \in 1..Len(matcherProperty[n]) :
       LET sub == matcherProperty[n][k]
           invoked == Invoked(log', "match", sub.cb, n)
       IN IF sub.from # NULL
          THEN invoked = IF ExitFrom(sub.from) /\ currentStateName' = n THEN 1 ELSE 0
          ELSE EntryInto(n) => invoked = 1]_vars

\* Entries and ticks made by calls that carry a delta.
TimedEntryInto(n) ==
  \/ n = initialState /\ \E d \in TimerData : init(d)
  \/ currentStateName # n /\ currentStateName' = n /\ \E d \in TimerData : process(d)
TimedTickOf(n) ==
  currentStateName = n /\ currentStateName' = n /\ \E d \in TimerData : process(d)

\* The invocations a call made of the callbacks and subscribers of states.
Callbacks(l) == {i \in 1..Len(l) : l[i].kind # "predicate"}
\* Those initialiser made: the callbacks of an entry.
EntryCallbacks(l) == {i \in 1..Len(l) : l[i].kind \in {"enter", "begin", "every", "match"}}

\* C15: an entry resets the state's tickCount to 0, and in timer mode its
\* duration to 0, and every callback of the entry receives tickCount 0; a
\* non-transitioning process call adds one to the current state's tickCount
\* and hands the new count to the every-tick subscribers; the predicates of
\* a process call receive the count of the ticks completed before it.
C15_TickAccounting ==
  [][/\ \A n \in GateNames : TimedEntryInto(n) =>
          /\ tickCount'[n] = 0
          /\ deltaAlias # NULL => duration'[n] = 0
          /\ \A i \in EntryCallbacks(log') :
               log'[i].meta.to = n /\ log'[i].meta.tickCount = 0
     /\ \A n \in GateNames : TimedTickOf(n) =>
          /\ tickCount'[n] = tickCount[n] + 1
          /\ \A i \in Indices(log', "every") : log'[i].meta.tickCount = tickCount[n] + 1
     /\ \A d \in TimerData : process(d) =>
          \A i \in Indices(log', "predicate") :
            log'[i].meta.tickCount = tickCount[currentStateName]]_vars

\* walk's every-tick subscriber receives tickCount 2 on the second tick of
\* the dwell, after the predicate of that call received 1.
C15_Witness ==
  /\ stateTickSubscriptions["walk"] = <<"c1">>
  /\ currentStateName = "walk"
  /\ timesEnteredCount["walk"] = 1
  /\ tickCount["walk"] = 2
  /\ \E i \in Indices(log, "every") : log[i].meta.tickCount = 2
  /\ \E i \in Indices(log, "predicate") : log[i].meta.tickCount = 1

\* C16: in timer mode the every-tick subscribers of a state receive duration
\* 0 on the entry and, on each tick of the dwell the entry began, the sum of
\* the deltas of the dwell's ticks so far; the delta of the call that entered
\* the state is left out; with timer mode off every callback receives
\* duration null.
C16_CallbackDuration ==
  [][/\ deltaAlias # NULL =>
          /\ \A n \in GateNames : TimedEntryInto(n) =>
               /\ dwellTime'[n] = 0
               /\ \A i \in Indices(log', "every") : log'[i].meta.duration = 0
          /\ \A n \in GateNames : (TimedTickOf(n) /\ timesEnteredCount[n] > 0) =>
               \A i \in Indices(log', "every") : log'[i].meta.duration = dwellTime'[n]
     /\ deltaAlias = NULL =>
          \A i \in Callbacks(log') : log'[i].meta.duration = NullDuration]_vars

\* In timer mode walk's every-tick subscriber receives duration 2 on the
\* second tick of a dwell whose ticks had deltas 1 and 1.
C16_Witness ==
  /\ deltaAlias = DefaultAlias
  /\ stateTickSubscriptions["walk"] = <<"c1">>
  /\ currentStateName = "walk"
  /\ timesEnteredCount["walk"] = 1
  /\ tickCount["walk"] = 2
  /\ \E i \in Indices(log, "every") : log[i].meta.duration = 2 /\ log[i].data.dt = 1

\* C17: in timer mode the predicates of a process call receive as duration
\* the sum of the deltas of the earlier ticks of the current dwell plus the
\* delta of the call, in every dwell, the first dwell of the initial state
\* included.
C17_PredicateDuration ==
  [][\A d \in TimerData : (deltaAlias # NULL /\ process(d)) =>
       \A i \in Indices(log', "predicate") :
         log'[i].meta.duration = dwellTime[currentStateName] + d.dt]_vars

\* The time, count and longest fields of the records.
Times(r) == [n \in DOMAIN r |-> r[n].time]
Counts(r) == [n \in DOMAIN r |-> r[n].count]
Max(a, b) == IF a < b THEN b ELSE a

\* C18: with the recorder attached before init and init called before the
\* first process call, every time starts at 0, a non-transitioning process
\* call adds its delta to the time of the current state and to no other, and
\* init and a transitioning process call change no time; so each time is the
\* sum of the deltas of the ticks made while its state was current.
C18_RecorderTime ==
  [][/\ FlightRecorder => \A n \in DOMAIN records' : records'[n].time = 0
     /\ \A d \in TimerData : init(d) => Times(records') = Times(records)
     /\ \A d \in TimerData : process(d) =>
          IF currentStateName' = currentStateName
          THEN Times(records') =
                 [Times(records) EXCEPT ![currentStateName] = @ + d.dt]
          ELSE Times(records') = Times(records)]_vars

\* After init, a tick of idle with delta 1, a transition and two ticks of
\* walk with delta 1 each, idle has time 1 and walk has time 2.
C18_Witness ==
  /\ DOMAIN records = {"idle", "walk"}
  /\ currentStateName = "walk"
  /\ tickCount["walk"] = 2
  /\ records["idle"].time = 1
  /\ records["walk"].time = 2
  /\ dwellTime["walk"] = 2

\* C19: with the recorder attached before init, after any calls of init and
\* process the count of each state is the number of times the state has been
\* entered, and a tick changes no count.
C19_RecorderCount ==
  [][/\ Attached' => \A n \in DOMAIN records' : records'[n].count = timesEnteredCount'[n]
     /\ \A d \in TimerData : (process(d) /\ currentStateName' = currentStateName) =>
          Counts(records') = Counts(records)]_vars

\* idle was entered by init and by a transition from walk, walk once, and
\* the last call was a tick.
C19_Witness ==
  /\ DOMAIN records = {"idle", "walk"}
  /\ records["idle"].count = 2
  /\ records["walk"].count = 1
  /\ currentStateName = "idle"
  /\ tickCount["idle"] = 1
  /\ previousStateName = "walk"

\* C20: with the recorder attached before init, after any calls of init and
\* process the longest of each state is the largest sum of tick deltas of
\* one dwell in the state, the ongoing dwell included: it starts at 0 and
\* after each call it is the larger of its old value and the sum of the
\* state's ongoing dwell.
C20_RecorderLongest ==
  [][Attached' => \A n \in DOMAIN records' :
       records'[n].longest =
         Max(IF Attached THEN records[n].longest ELSE 0, dwellTime'[n])]_vars

\* C21: with the recorder attached before init and init called before the
\* first process call, the current field of each state's Recording is the
\* sum of the deltas of the ticks of the state's ongoing (or last) dwell: 0
\* after an entry, increased by the delta of each tick of the dwell.
C21_RecorderCurrent ==
  Attached => \A n \in DOMAIN records : records[n].current = dwellTime[n]

\* C24: a recorder attached after init, or to a machine on which init is
\* never called, records every later tick: each non-transitioning process
\* call made after the attachment adds its delta to the time of the state
\* that is current at the call.
C24_LateAttachment ==
  [][\A d \in TimerData :
       (Attached /\ currentStateName \in DOMAIN records
          /\ process(d) /\ currentStateName' = currentStateName) =>
         records'[currentStateName].time = records[currentStateName].time + d.dt]_vars

\* C26: init enters the initial state with from = null, and from = null is
\* delivered only for the very first entry into the initial state: every
\* other entry, a re-entry into the initial state included, carries as from
\* the state the call exited.
C26_InitialEntry ==
  [][/\ \A d \in GateData : init(d) =>
          \E i \in Indices(log', "enter") :
            log'[i].meta.from = NULL /\ log'[i].meta.to = initialState
     /\ \A i \in Indices(log', "enter") :
          IF timesEnteredCount[log'[i].meta.to] = 0 /\ log'[i].meta.to = initialState
          THEN TRUE
          ELSE /\ log'[i].meta.from = currentStateName
               /\ log'[i].meta.from # log'[i].meta.to]_vars

\* C27: after any builder, subscription, init and process calls the current
\* state, the builder's two cursors and the target of every declared
\* transition are states of the machine, and only states of the machine
\* own transitions.
C27_WellFormed ==
  /\ currentStateName \in states
  /\ homeState \in states
  /\ destState \in states
  /\ \A n \in Names : \A k \in 1..Len(transitions[n]) :
       n \in states /\ transitions[n][k].state \in states

\* The machine is in walk, a state added by transitionTo, after a
\* transition from idle and back and forth, with a subscriber on walk.
C27_Witness ==
  /\ currentStateName = "walk"
  /\ timesEnteredCount["walk"] = 2
  /\ Len(transitions["idle"]) = 1
  /\ Len(transitions["walk"]) = 1
  /\ stateChangeSubscriptions["walk"] # <<>>

\* C28: when the enter-callback of the destination throws during a
\* transitioning process call, the caller sees the error and nothing is
\* undone: the end subscribers of the source have fired, the destination is
\* current, its tickCount is 0 and its entry is counted, and none of its
\* 'begin', 'every' and pattern-matched subscribers has fired.
C28_NoRollback ==
  [][\A d \in GateData :
       (process(d) /\ currentStateName' # currentStateName
          /\ initFn[currentStateName'] = ThrowingFn) =>
         /\ err' = "Thrown"
         /\ CallbacksOf(log', "end") = stateEndSubscriptions[currentStateName]
         /\ tickCount'[currentStateName'] = 0
         /\ timesEnteredCount'[currentStateName'] =
              timesEnteredCount[currentStateName'] + 1
         /\ log'[Len(log')].kind = "enter"
         /\ Indices(log', "begin") \cup Indices(log', "every")
              \cup Indices(log', "match") = {}]_vars

\* The call moved the machine from idle, which has an end subscriber, to
\* walk, whose enter-callback threw and which has subscribers on its
\* 'begin' and 'every' channels and a pattern-matched one.
C28_Witness ==
  /\ err = "Thrown"
  /\ currentStateName = "walk"
  /\ timesEnteredCount["walk"] = 1
  /\ CallbacksOf(log, "end") = <<"c1">>
  /\ stateChangeSubscriptions["walk"] = <<"c1">>
  /\ stateTickSubscriptions["walk"] = <<"c1">>
  /\ matcherProperty["walk"] # <<>>

\* The invocations initialiser made for the entry into n, in order.
EntryOf(l, n) ==
  SelectSeq(l, LAMBDA r : r.kind \in {"enter", "begin", "every", "match"} /\ r.meta.to = n)

\* C30: on every entry into a state, by init or by a transition, the
\* callbacks fire last in the call and in this order: the user
\* enter-callback, the 'begin' subscribers, the 'every' subscribers, then
\* the pattern-matched subscribers whose matcher accepts the entry; a
\* subscriber that unsubscribes on the entry is among those that fired and
\* is removed after them.
C30_EntryOrder ==
  [][\A n \in GateNames : EntryInto(n) =>
       LET entry == EntryOf(log', n)
           b == Len(stateChangeSubscriptions[n])
           e == Len(stateTickSubscriptions[n])
           accepted == SelectSeq(subscriptionsViaMatcher[n],
                                 LAMBDA sub : MatcherAccepts(sub, entry[1].meta))
       IN /\ Len(entry) = 1 + b + e + Len(accepted)
          /\ SubSeq(log', Len(log') - Len(entry) + 1, Len(log')) = entry
          /\ entry[1].kind = "enter" /\ entry[1].cb = initFn[n]
          /\ \A i \in 1..b : /\ entry[1 + i].kind = "begin"
                              /\ entry[1 + i].cb = stateChangeSubscriptions[n][i]
          /\ \A i \in 1..e : /\ entry[1 + b + i].kind = "every"
                              /\ entry[1 + b + i].cb = stateTickSubscriptions[n][i]
          /\ \A i \in 1..Len(accepted) :
               /\ entry[1 + b + e + i].kind = "match"
               /\ entry[1 + b + e + i].cb = accepted[i].cb
          /\ \A i \in 1..Len(entry) : entry[i].meta = entry[1].meta
          /\ subscriptionsViaMatcher'[n] =
               SelectSeq(subscriptionsViaMatcher[n],
                         LAMBDA sub : ~(sub.unsub /\ MatcherAccepts(sub, entry[1].meta)))]_vars

\* The process call that moved the machine from idle to walk invoked walk's
\* enter-callback, its 'begin' and 'every' subscribers, its once subscriber
\* and its pattern-matched subscriber, five callbacks.
C30_Witness ==
  /\ currentStateName = "walk"
  /\ timesEnteredCount["walk"] = 1
  /\ tickCount["walk"] = 0
  /\ initFn["walk"] = UserFn
  /\ Len(EntryOf(log, "walk")) = 5
  /\ log[Len(log)].cb = "c2"
  /\ log[Len(log)].meta.from = "idle"
  /\ Len(subscriptionsViaMatcher["walk"]) = 1

\* The recorder's handlers on a machine m.
Handlers(m) ==
  {n \in Names : \E i \in 1..Len(m.stateChangeSubscriptions[n]) :
                   m.stateChangeSubscriptions[n][i] = enterHandler[n]}
    \cup {n \in {tickHandler} : \E i \in 1..Len(m.onTicks) : m.onTicks[i] = n}

\* C22: constructing a recorder over two machines that share a state name
\* raises the naming-collision error, and when it is raised the recorder
\* has subscribed nothing on either machine.
C22_NamingCollision ==
  [][FlightRecorderOfBoth =>
       IF states \cap parked[1].states # {}
       THEN /\ err' = "NamingCollision"
            /\ Handlers(Current') = {}
            /\ Handlers(parked'[1]) = {}
       ELSE err' = "none"]_vars

\* The Recordings of the states of machine m.
RecordsOf(m, r) == [n \in m.states \cap DOMAIN r |-> r[n]]

\* C23: with one recorder over two machines, an init or process call on
\* one machine leaves the Recordings of the other machine's states as they
\* were, and records what a recorder over that machine alone records: the
\* entry is counted in the Recording of the state entered, a tick's delta
\* is added to the time of the state that machine's handlers entered last.
C23_Isolation ==
  [][\A d \in FleetData : (~Collided /\ (init(d) \/ process(d))) =>
       /\ RecordsOf(parked[1], records') = RecordsOf(parked[1], records)
       /\ DOMAIN records' = DOMAIN records
       /\ \A n \in states :
            /\ records'[n].count = timesEnteredCount'[n]
            /\ records'[n].time =
                 IF /\ recorderStateName = n
                    /\ tickCount'[currentStateName] = tickCount[currentStateName] + 1
                 THEN records[n].time + d.dt ELSE records[n].time]_vars

\* Both machines have been stepped under the recorder: idle and jump have
\* each recorded a tick, and one of the machines has gone on to walk.
C23_Witness ==
  /\ ~Collided
  /\ DOMAIN records = {"idle", "walk", "jump"}
  /\ records["idle"].time = 1
  /\ records["jump"].time = 1
  /\ records["walk"].count = 1
  /\ currentStateName = "walk"
  /\ parked[1].currentStateName \in {"idle", "jump"}

\* The invocations of the host's callbacks and subscribers in a log.
UserLog(l) ==
  SelectSeq(l, LAMBDA r : r.cb # tickHandler /\ \A n \in Names : r.cb # enterHandler[n])

\* C25: a recorded machine and an identical unrecorded one, given the same
\* calls, are in the same current state with the same tickCounts after each
\* call, and the call invokes the same callbacks and subscribers of the
\* host, in the same order, with the same data and metadata.
C25_Passivity ==
  [][(Attached /\ active = 2 /\ Echo) =>
       /\ currentStateName' = parked[1].currentStateName
       /\ tickCount' = parked[1].tickCount
       /\ timesEnteredCount' = parked[1].timesEnteredCount
       /\ log' = UserLog(parked[1].log)]_vars

\* The unrecorded twin has just repeated a tick of walk on which the
\* recorded machine invoked the recorder's tick handler and c1.
C25_Witness ==
  /\ Attached
  /\ active = 2
  /\ Synced
  /\ currentStateName = "walk"
  /\ tickCount["walk"] = 1
  /\ stateChangeSubscriptions["walk"] = <<"c1">>
  /\ onTicks = <<"c1">>
  /\ parked[1].onTicks = <<"c1", tickHandler>>
  /\ Len(parked[1].log) = Len(log) + 1

C31_MachineTick ==
  [][/\ \A n \in Names : TickOf(n) =>
          LET k == Len(log') - Len(onTicks)
          IN /\ k >= 0
             /\ CallbacksOf(SubSeq(log', k + 1, Len(log')), "ontick") = onTicks
             /\ \A i \in 1..k : log'[i].kind # "ontick"
             /\ \A i \in k + 1..Len(log') : log'[i].kind = "ontick"
     /\ ((\E d \in GateData : init(d)) \/ (\E n \in Names : EntryInto(n)))
          => Indices(log', "ontick") = {}]_vars

\* A tick of a state with an 'every' subscriber, a matcher subscriber and a
\* tick-callback has invoked them and then c2 and c1, subscribed to the
\* machine-wide channel in that order.
C31_Witness ==
  /\ onTicks = <<"c2", "c1">>
  /\ Len(log) = 5
  /\ log[1].kind = "every"
  /\ log[2].kind = "match"
  /\ log[3].kind = "tick" /\ log[3].cb = UserFn
  /\ log[4].kind = "ontick" /\ log[4].cb = "c2"
  /\ log[5].kind = "ontick" /\ log[5].cb = "c1"

\* C32: on a process call that leaves the machine in a state it has
\* entered, the machine-wide tick subscribers receive the dwell duration
\* of that call, the state's accumulated duration plus the call's delta,
\* which is what the state's 'every' subscribers receive; with timer mode
\* off they receive null.
C32_OnTickDuration ==
  [][\A n \in Names, d \in TimerData :
       (timesEnteredCount[n] > 0 /\ currentStateName = n /\ currentStateName' = n
          /\ process(d)) =>
         /\ \A i \in Indices(log', "ontick") :
              log'[i].meta.duration = DwellDuration(n, d)
         /\ \A i \in Indices(log', "ontick"), j \in Indices(log', "every") :
              log'[i].meta.duration = log'[j].meta.duration]_vars

\* C33: on a process call in timer mode that takes the machine out of a
\* state it has entered, the 'end' subscribers of that state receive its
\* tickCount and its accumulated duration plus the call's delta, also when
\* the accumulated duration is 0.
C33_ExitMetadata ==
  [][\A n \in Names, d \in TimerData :
       (deltaAlias # NULL /\ timesEnteredCount[n] > 0
          /\ currentStateName = n /\ currentStateName' # n /\ process(d)) =>
         \A i \in Indices(log', "end") :
           /\ log'[i].meta.tickCount = tickCount[n]
           /\ log'[i].meta.duration = DwellDuration(n, d)]_vars

\* C35: a matcher subscription on S, registered when S has been entered
\* before, is invoked by the next entry into S that its matcher accepts: a
\* pattern subscription by every such entry, a one-shot subscription by
\* the entry made by the call that follows its registration (the log is
\* empty between a registration and the next call of init or process).
C35_LateRegistration ==
  [][\A n \in GateNames : \A k \in 1..Len(matcherProperty[n]) :
       LET sub == matcherProperty[n][k]
           invoked == Invoked(log', "match", sub.cb, n)
       IN (timesEnteredCount[n] > 0 /\ (sub.unsub => log = <<>>)) =>
            IF sub.from # NULL
            THEN (ExitFrom(sub.from) /\ currentStateName' = n) => invoked = 1
            ELSE EntryInto(n) => invoked = 1]_vars

\* C36: a callback registered once with once(S, cb) is not invoked twice:
\* no call invokes it more than once, and no two calls in a row invoke it.
C36_OneShot ==
  [][\A n \in GateNames : \A k \in 1..Len(matcherProperty[n]) :
       LET sub == matcherProperty[n][k]
       IN sub.unsub =>
            /\ Invoked(log', "match", sub.cb, n) <= 1
            /\ ~(Invoked(log, "match", sub.cb, n) > 0
                   /\ Invoked(log', "match", sub.cb, n) > 0)]_vars

\* C37: the first dwell of an initial state on which init was never called
\* is gated by the literal threshold declared on it with forAtLeast: no
\* process call leaves it before it has ticked that many times.
C37_UninitialisedGate ==
  [][(/\ timesEnteredCount[initialState] = 0
      /\ ~getMinTicks[initialState].fn
      /\ ExitFrom(initialState))
       => tickCount[initialState] >= getMinTicks[initialState].val]_vars

\* The states whose tickCount or duration a step changes.
Recounted == {n \in Names : tickCount'[n] # tickCount[n] \/ duration'[n] # duration[n]}

\* C38: a process call changes the tickCount and duration of at most one
\* state: a call that ticks adds one to the current state's tickCount, a
\* call that takes a transition sets the destination's tickCount to 0 and,
\* in timer mode, its duration to 0, and leaves the counters of the state
\* it exits as they were; no call lowers a state's entry counter.
C38_CounterFrame ==
  [][/\ \A d \in TimerData : process(d) =>
          LET cur == currentStateName
              dest == currentStateName'
          IN /\ Cardinality(Recounted) <= 1
             /\ IF dest = cur
                THEN /\ Recounted = {cur}
                     /\ tickCount'[cur] = tickCount[cur] + 1
                ELSE /\ Recounted \subseteq {dest}
                     /\ tickCount'[dest] = 0
                     /\ deltaAlias # NULL => duration'[dest] = 0
                     /\ tickCount'[cur] = tickCount[cur]
                     /\ duration'[cur] = duration[cur]
     /\ \A n \in Names : timesEnteredCount'[n] >= timesEnteredCount[n]]_vars

\* idle has been entered again from walk in timer mode: its counters are
\* 0 and walk keeps the tick and the duration of its dwell.
C38_Witness ==
  /\ deltaAlias # NULL
  /\ currentStateName = "idle"
  /\ previousStateName = "walk"
  /\ timesEnteredCount["idle"] = 2
  /\ tickCount["idle"] = 0
  /\ duration["idle"] = 0
  /\ tickCount["walk"] = 1
  /\ duration["walk"] = 1

\* The subscribers of a channel that no callback unsubscribes.
Staying(subs) == {subs[i] : i \in 1..Len(subs)} \ {Leaver}

\* C34: when a subscriber unsubscribes itself with off during a fan-out,
\* or a one-shot subscription is unsubscribed by the entry that invokes it,
\* every other subscriber of the channel is invoked exactly once by that
\* fan-out: the 'begin' and 'every' subscribers and the one-shot
\* subscribers of a state by an entry into it, its 'every' subscribers by
\* a tick.
C34_RemovalDuringFanOut ==
  [][\A n \in GateNames :
       /\ EntryInto(n) =>
            /\ \A c \in Staying(stateChangeSubscriptions[n]) :
                 Invoked(log', "begin", c, n) = 1
            /\ \A c \in Staying(stateTickSubscriptions[n]) :
                 Invoked(log', "every", c, n) = 1
            /\ timesEnteredCount[n] = 0 =>
                 \A k \in 1..Len(matcherProperty[n]) :
                   Invoked(log', "match", matcherProperty[n][k].cb, n) = 1
       /\ TickOf(n) =>
            \A c \in Staying(stateTickSubscriptions[n]) :
              Invoked(log', "every", c, n) = 1]_vars

====
